---- MODULE Spec2Model ----
(***************************************************************************)
(* Application-command layer of discord/application_commands.py:           *)
(*   - the dispatch pipeline BaseApplicationCommand._scheduled_task,        *)
(*   - command matching (_get_used_command, _get_used_subcommand),          *)
(*   - serialisation (to_dict) and the class-body option harvester.         *)
(* Python values are records [k |-> kind, x |-> text] so that None, 0,     *)
(* False and '' are four different values with their own truthiness.       *)
(***************************************************************************)
EXTENDS Integers, Sequences, FiniteSets, TLC

\* ------------------------------------------------------------------ bounds
MaxChecks == 2      \* registered client-level checks
MaxDepth == 2       \* length of the chain command -> parent -> ...
MaxOpts == 2        \* declared options of the invoked command

\* ------------------------------------------------------------ Python values
NoneV == [k |-> "none", x |-> ""]
Int0 == [k |-> "int", x |-> "0"]
Int5 == [k |-> "int", x |-> "5"]
FalseV == [k |-> "bool", x |-> "False"]
EmptyStr == [k |-> "str", x |-> ""]
StrGiven == [k |-> "str", x |-> "given"]
Raised == [k |-> "raise", x |-> ""]

\* bool(v) of a Python value
Truthy(v) ==
    ~ (\/ v.k = "none"
       \/ v = Int0
       \/ v = FalseV
       \/ v = EmptyStr)

\* option.required is True, False or utils.MISSING
MISSING == "MISSING"
Requireds == {"True", "False", MISSING}

\* `not option.required`: utils.MISSING is a falsy sentinel
NotRequired(required) == required \in {"False", MISSING}

\* ApplicationCommandOptionDefault (the base class of the reusable default
\* providers): calling an instance runs its `async def default(self, response)`
\* and so yields a coroutine
ProviderIsCallable == TRUE

ProviderCall == [k |-> "coro", x |-> "provided"]

\* callable(default): functions, classes, and default-provider instances
Callable(v) ==
    \/ v.k \in {"fn", "provider_class"}
    \/ v.k = "provider" /\ ProviderIsCallable

\* default(response) for a callable default; how \in {"sync","async","raise"}
\* says what kind of function the author wrote.  Calling a class makes an
\* instance of it.
CallDefault(default, how) ==
    IF default.k = "provider" THEN ProviderCall
    ELSE IF default.k = "provider_class" THEN [k |-> "provider", x |-> default.x]
    ELSE IF how = "raise" THEN Raised
    ELSE IF how = "async" THEN [k |-> "coro", x |-> "computed"]
    ELSE [k |-> "obj", x |-> "computed"]

\* utils.maybe_coroutine(f, *args): call f, await the result if awaitable
maybe_coroutine(default, how) ==
    LET value == CallDefault(default, how)
    IN IF value.k = "coro" THEN [k |-> "obj", x |-> value.x] ELSE value

\* utils.async_all(gen): consumes the lazy generator up to and including the
\* first falsy (or raising) element.  rs is the outcome each check would have.
RECURSIVE async_all(_, _)
async_all(rs, i) ==
    IF i > Len(rs) THEN [calls |-> Len(rs), value |-> "true"]
    ELSE IF rs[i] # "true" THEN [calls |-> i, value |-> rs[i]]
    ELSE async_all(rs, i + 1)

\* ----------------------------------------------------------- pipeline state
VARIABLES
    checks,      \* client._application_command_checks (their number)
    cog,         \* self._cog: [present, check, error] (overridden or not)
    chain,       \* <<self, parent, grandparent..>>: [check, on_error] overridden
    options,     \* self.__application_command_options__.values()
    isSlash,     \* isinstance(response, SlashCommandResponse)
    resolved,    \* response.options.__application_command_options__
    responded,   \* response.response._responded
    pc,          \* position of the task in _scheduled_task
    idx,         \* position of the default-injection loop
    err,         \* the exception e caught by `except Exception as e`
    escaped,     \* an exception left the task (raised inside a handler)
    log,         \* every user function the task has invoked, in order
    supplied     \* the payload: value given for each declared option, or None

pipeVars == <<checks, cog, chain, options, isSlash, resolved, responded,
              pc, idx, err, escaped, log, supplied>>

OptName(i) == <<"string_opt", "int_opt", "third_opt", "fourth_opt">>[i]

Ev(ev, n, res) == [ev |-> ev, n |-> n, res |-> res]

\* getattr(response.options, name, None)
GetAttr(opts, name) == IF name \in DOMAIN opts THEN opts[name] ELSE NoneV

\* ApplicationCommandOptions.__init__ for scalar options: every option that
\* is not required starts as None, then every payload entry with a value is
\* stored under its name.  values[i] = NoneV: the payload has no entry.
ApplicationCommandOptions(command_options, values) ==
    LET optional == {command_options[i].name : i \in
                        {j \in DOMAIN command_options :
                            NotRequired(command_options[j].required)}}
        given == {command_options[i].name : i \in
                        {j \in DOMAIN command_options : values[j] # NoneV}}
        ValueOf(n) == LET i == CHOOSE j \in DOMAIN command_options :
                                    command_options[j].name = n
                      IN values[i]
    IN [n \in optional \cup given |-> IF n \in given THEN ValueOf(n) ELSE NoneV]

application_command_option_kept(default) == default

\* application_command_option(default=...): a default-provider class is
\* instantiated, anything else is kept
application_command_option(default) ==
    IF default.k = "provider_class" THEN [k |-> "provider", x |-> default.x]
    ELSE default

Fn == [k |-> "fn", x |-> ""]
ProviderClass == [k |-> "provider_class", x |-> "AuthorDefault"]
AuthorDefaults == {NoneV, Int5, Int0, Fn, ProviderClass}
Given == {NoneV, Int0, FalseV, EmptyStr}

Option(i, required, default) ==
    [name |-> OptName(i), required |-> required,
     default |-> application_command_option(default)]

NeedsDefaultFalsy(option, opts) ==
    /\ NotRequired(option.required)
    /\ option.default # NoneV
    /\ ~Truthy(GetAttr(opts, option.name))

\* the condition of line 1395: the option is optional, a default was set and
\* no value was provided
NeedsDefault(option, opts) ==
    /\ NotRequired(option.required)
    /\ option.default # NoneV
    /\ GetAttr(opts, option.name) = NoneV

InjectedValueUncalled(default, how) == default

\* the value lines 1396-1399 store for the option
InjectedValue(default, how) ==
    IF Callable(default) THEN maybe_coroutine(default, how) ELSE default

Store(opts, name, value) ==
    [n \in DOMAIN opts \cup {name} |-> IF n = name THEN value ELSE opts[n]]

RECURSIVE FirstOverride(_, _, _)

FurthestOverride(ch, method, i) ==
    LET overriding == {j \in DOMAIN ch : j >= i /\ ch[j][method]}
    IN IF overriding = {} THEN 0
       ELSE CHOOSE j \in overriding : \A k \in overriding : k <= j

\* _get_overridden_method(self.<method>) followed by the walk over
\* __application_command_parent__: index in the chain of the first command
\* that overrides the method, 0 if none does
FirstOverride(ch, method, i) ==
    IF i > Len(ch) THEN 0
    ELSE IF ch[i][method] THEN i
    ELSE FirstOverride(ch, method, i + 1)

HandlerOrderDispatchFirst == <<"dispatch", "cogerr", "onerror", "done">>

\* order of the statements of the except block: the cog handler inside try,
\* then client.dispatch and the on_error walk inside finally
HandlerOrder == <<"cogerr", "dispatch", "onerror", "done">>

StageAfter(stage) ==
    LET i == CHOOSE j \in DOMAIN HandlerOrder : HandlerOrder[j] = stage
    IN HandlerOrder[i + 1]

CogErrorNextNoFinally(out) == IF out = "raise" THEN "done" ELSE "dispatch"

\* `finally:` runs whether or not the cog handler raised
CogErrorNext(out) == StageAfter("cogerr")

GlobalAllowNextIgnored(value) == "cog"

\* `if not global_allow: return`
GlobalAllowNext(value) == IF value = "true" THEN "cog" ELSE "done"

\* `if not cog_allow: return`
CogAllowNext(value) == IF value = "true" THEN "chain" ELSE "done"

\* `if not allow: return`
CommandAllowNext(value) == IF value = "true" THEN "callback" ELSE "done"

Outcomes == {"true", "false", "raise"}

Raise(e, event) ==
    /\ err' = e
    /\ pc' = HandlerOrder[1]
    /\ log' = Append(log, event)

CogConfigs ==
    {[present |-> FALSE, check |-> FALSE, error |-> FALSE]} \cup
    {[present |-> TRUE, check |-> c, error |-> e] : c, e \in BOOLEAN}

ChainConfigs ==
    UNION {[1..n -> [command_check : BOOLEAN, on_error : BOOLEAN]] : n \in 1..MaxDepth}

OptionLists ==
    UNION {{[i \in 1..n |-> Option(i, f[i][1], f[i][2])] :
              f \in [1..n -> Requireds \X AuthorDefaults]} : n \in 0..MaxOpts}

StartTask(os, sup) ==
    /\ options = os
    /\ supplied = sup
    /\ resolved = ApplicationCommandOptions(os, sup)
    /\ responded = FALSE
    /\ pc = "inject"
    /\ idx = 1
    /\ err = "none"
    /\ escaped = FALSE
    /\ log = <<>>

\* every shape of client, cog and parent chain, with the command of the
\* end-to-end example (one required string, one optional integer default 5)
InitPipeline ==
    /\ checks \in 0..MaxChecks
    /\ cog \in CogConfigs
    /\ chain \in ChainConfigs
    /\ isSlash \in BOOLEAN
    /\ StartTask(<<Option(1, "True", NoneV), Option(2, "False", Int5)>>,
                 <<StrGiven, NoneV>>)

\* every declaration and payload of up to MaxOpts options, for a Slash command
\* outside any cog and without parents or client-level checks
InitInjection ==
    /\ checks = 0
    /\ cog = [present |-> FALSE, check |-> FALSE, error |-> FALSE]
    /\ chain = <<[command_check |-> FALSE, on_error |-> FALSE]>>
    /\ isSlash = TRUE
    /\ \E os \in OptionLists : \E sup \in [DOMAIN os -> Given] : StartTask(os, sup)

\* lines 1391-1399, one iteration of the loop per step
InjectDefaults ==
    /\ pc = "inject"
    /\ UNCHANGED <<checks, cog, chain, options, isSlash, responded, escaped, supplied>>
    /\ IF ~isSlash \/ idx > Len(options)
       THEN /\ pc' = "global"
            /\ UNCHANGED <<resolved, idx, err, log>>
       ELSE LET option == options[idx]
            IN IF NeedsDefault(option, resolved)
               THEN \E how \in {"sync", "async", "raise"} :
                      LET value == InjectedValue(option.default, how)
                      IN IF value = Raised
                         THEN /\ Raise("default", Ev("default", idx, "raise"))
                              /\ UNCHANGED <<resolved, idx>>
                         ELSE /\ resolved' = Store(resolved, option.name, value)
                              /\ idx' = idx + 1
                              /\ log' = IF Callable(option.default)
                                        THEN Append(log, Ev("default", idx, "ok"))
                                        ELSE log
                              /\ UNCHANGED <<pc, err>>
               ELSE /\ idx' = idx + 1
                    /\ UNCHANGED <<resolved, pc, err, log>>

\* lines 1402-1404
GlobalChecks ==
    /\ pc = "global"
    /\ UNCHANGED <<checks, cog, chain, options, isSlash, resolved, responded,
                   idx, escaped, supplied>>
    /\ \E rs \in [1..checks -> Outcomes] :
         LET r == async_all(rs, 1)
             calls == [i \in 1..r.calls |-> Ev("global_check", i, rs[i])]
         IN IF r.value = "raise"
            THEN /\ err' = "global_check"
                 /\ pc' = HandlerOrder[1]
                 /\ log' = log \o calls
            ELSE /\ pc' = GlobalAllowNext(r.value)
                 /\ log' = log \o calls
                 /\ UNCHANGED err

\* lines 1406-1412
CogCheck ==
    /\ pc = "cog"
    /\ UNCHANGED <<checks, cog, chain, options, isSlash, resolved, responded,
                   idx, escaped, supplied>>
    /\ IF cog.present /\ cog.check
       THEN \E r \in Outcomes :
              IF r = "raise"
              THEN Raise("cog_check", Ev("cog_check", 0, r))
              ELSE /\ pc' = CogAllowNext(r)
                   /\ log' = Append(log, Ev("cog_check", 0, r))
                   /\ UNCHANGED err
       ELSE /\ pc' = "chain"
            /\ UNCHANGED <<err, log>>

\* lines 1414-1424
CommandCheck ==
    /\ pc = "chain"
    /\ UNCHANGED <<checks, cog, chain, options, isSlash, resolved, responded,
                   idx, escaped, supplied>>
    /\ LET k == FirstOverride(chain, "command_check", 1)
       IN IF k # 0
          THEN \E r \in Outcomes :
                 IF r = "raise"
                 THEN Raise("command_check", Ev("command_check", k, r))
                 ELSE /\ pc' = CommandAllowNext(r)
                      /\ log' = Append(log, Ev("command_check", k, r))
                      /\ UNCHANGED err
          ELSE /\ pc' = "callback"
               /\ UNCHANGED <<err, log>>

\* line 1426
Callback ==
    /\ pc = "callback"
    /\ UNCHANGED <<checks, cog, chain, options, isSlash, resolved, idx,
                   escaped, supplied>>
    /\ \E out \in {"respond", "silent", "raise"} :
         IF out = "raise"
         THEN /\ Raise("callback", Ev("callback", 0, out))
              /\ UNCHANGED responded
         ELSE /\ pc' = "defer"
              /\ responded' = (out = "respond")
              /\ log' = Append(log, Ev("callback", 0, out))
              /\ UNCHANGED err

ShouldDeferAlways(has_responded) == TRUE

\* line 1427: `if not response.response._responded`
ShouldDefer(has_responded) == ~has_responded

\* lines 1427-1428
AutoDefer ==
    /\ pc = "defer"
    /\ UNCHANGED <<checks, cog, chain, options, isSlash, resolved, idx,
                   escaped, supplied>>
    /\ IF ShouldDefer(responded)
       THEN \E out \in {"ok", "raise"} :
              IF out = "raise"
              THEN /\ Raise("defer", Ev("defer", 0, out))
                   /\ UNCHANGED responded
              ELSE /\ pc' = "done"
                   /\ responded' = TRUE
                   /\ log' = Append(log, Ev("defer", 0, out))
                   /\ UNCHANGED err
       ELSE /\ pc' = "done"
            /\ UNCHANGED <<responded, err, log>>

\* lines 1430-1435
CogErrorHandler ==
    /\ pc = "cogerr"
    /\ UNCHANGED <<checks, cog, chain, options, isSlash, resolved, responded,
                   idx, err, supplied>>
    /\ IF cog.present /\ cog.error
       THEN \E out \in {"ok", "raise"} :
              /\ log' = Append(log, Ev("cog_error", 0, out))
              /\ escaped' = (escaped \/ out = "raise")
              /\ pc' = CogErrorNext(out)
       ELSE /\ pc' = StageAfter("cogerr")
            /\ UNCHANGED <<escaped, log>>

\* line 1437
DispatchError ==
    /\ pc = "dispatch"
    /\ UNCHANGED <<checks, cog, chain, options, isSlash, resolved, responded,
                   idx, err, escaped, supplied>>
    /\ log' = Append(log, Ev("dispatch", 0, err))
    /\ pc' = StageAfter("dispatch")

\* lines 1438-1446
OnError ==
    /\ pc = "onerror"
    /\ UNCHANGED <<checks, cog, chain, options, isSlash, resolved, responded,
                   idx, err, supplied>>
    /\ LET k == FirstOverride(chain, "on_error", 1)
       IN IF k # 0
          THEN \E out \in {"ok", "raise"} :
                 /\ log' = Append(log, Ev("on_error", k, out))
                 /\ escaped' = (escaped \/ out = "raise")
                 /\ pc' = StageAfter("onerror")
          ELSE /\ pc' = StageAfter("onerror")
               /\ UNCHANGED <<escaped, log>>


PipelineNext ==
    \/ InjectDefaults
    \/ GlobalChecks
    \/ CogCheck
    \/ CommandCheck
    \/ Callback
    \/ AutoDefer
    \/ CogErrorHandler
    \/ DispatchError
    \/ OnError

\* no task is running
PipelineIdle ==
    /\ checks = 0
    /\ cog = [present |-> FALSE, check |-> FALSE, error |-> FALSE]
    /\ chain = <<>>
    /\ isSlash = FALSE
    /\ StartTask(<<>>, <<>>)

\* ------------------------------------------------------------ command matching
VARIABLES
    command,     \* the registered top-level command and its subcommand tree
    payload,     \* application_command_data: name, type, options
    guild_id,    \* the interaction's guild id, GuildNone in a DM
    used,        \* what _get_used_command returned (or that it raised)
    data_options \* the list under the payload's 'options' key, as the caller
                 \* holds it

matchVars == <<command, payload, guild_id, used, data_options>>

GuildNone == 0
GuildIds == {1, 2}
CommandNames == {"permissions", "user", "role", "get"}

\* an entry of data.options; hasOptions = FALSE: the entry has no 'options' key
Entry(type, name, hasOptions, nested) ==
    [type |-> type, name |-> name, hasOptions |-> hasOptions, options |-> nested]

Leaf(type, name) == Entry(type, name, FALSE, <<>>)

\* a definition in a __application_command_subcommands__ map: the key it is
\* stored under, its name, whether it is a group, and its own map
Sub(name, group, subs) ==
    [key |-> name, name |-> name, group |-> group, subcommands |-> subs]

\* set_name (lines 1448-1457) on a definition: the maps holding it keep the
\* key it was stored under
set_name(sub, name) == [sub EXCEPT !.name = name]

Def(kind, path) == [kind |-> kind, path |-> path]
Pending == Def("pending", <<>>)
NoMatch == Def("None", <<>>)
Self == Def("self", <<>>)
TypeError == Def("TypeError", <<>>)

\* an element of the work list of _get_used_subcommand: an option dict, or
\* whatever else was appended to the list
Item(tag, d) == [tag |-> tag, d |-> d]
Dicts(entries) == [i \in DOMAIN entries |-> Item("dict", entries[i])]

\* _get_used_subcommand(options): line 870 appends the nested list itself (or
\* None when the group entry has no 'options'), so the next option['type']
\* subscripts a list (or None) with a string
\* `rest` is the list as the loop leaves it
RECURSIVE get_used_subcommand(_)
get_used_subcommand(work) ==
    IF work = <<>> THEN [raised |-> FALSE, name |-> "None", rest |-> work]
    ELSE LET option == Head(work)
             rest == Tail(work)
         IN IF option.tag # "dict"
            THEN [raised |-> TRUE, name |-> "None", rest |-> rest]
            ELSE IF option.d.type = 1
                 THEN [raised |-> FALSE, name |-> option.d.name, rest |-> rest]
            ELSE IF option.d.type = 2
                 THEN get_used_subcommand(
                        Append(rest,
                               Item(IF option.d.hasOptions THEN "list" ELSE "none",
                                    option.d)))
            ELSE [raised |-> FALSE, name |-> "None", rest |-> rest]

\* cls._recursively_get_subcommand(name), over the children in map order
RECURSIVE recursively_get_subcommand(_, _, _)
recursively_get_subcommand(subcommands, name, i) ==
    IF i > Len(subcommands) THEN NoMatch
    ELSE LET subcommand == subcommands[i]
             nested == {j \in DOMAIN subcommand.subcommands :
                           subcommand.subcommands[j].key = name}
         IN IF subcommand.name = name THEN Def("def", <<subcommand.key>>)
            ELSE IF nested # {}
                 THEN Def("def", <<subcommand.key, name>>)
            ELSE recursively_get_subcommand(subcommands, name, i + 1)

ScopeMismatchGroupedWithName(cmd, data, guild) ==
    (/\ ~cmd.global_command
     /\ guild # GuildNone
     /\ cmd.has_guild_ids
     /\ guild \notin cmd.guild_ids)
    /\ (cmd.name # data.name \/ cmd.type # data.type)

\* the condition of lines 1361-1365: `and` binds tighter than `or`
Rejected(cmd, data, guild) ==
    \/ (/\ ~cmd.global_command
        /\ guild # GuildNone
        /\ cmd.has_guild_ids
        /\ guild \notin cmd.guild_ids)
    \/ cmd.name # data.name
    \/ cmd.type # data.type

\* options.copy() (line 1371): a new list of the same dicts, which the caller
\* does not hold
copy(list) == [list |-> list, caller |-> FALSE]

\* the caller's list after self._get_used_command(...): what the loop of
\* _get_used_subcommand left of it, if the loop ran on that very list
options_after_call(cmd, data, guild) ==
    LET passed == copy(Dicts(data.options))
    IN IF /\ ~Rejected(cmd, data, guild)
          /\ data.hasOptions /\ cmd.subcommands # <<>>
          /\ passed.caller
       THEN get_used_subcommand(passed.list).rest
       ELSE Dicts(data.options)

\* self._get_used_command(application_command_data, guild_id)
get_used_command(cmd, data, guild) ==
    IF Rejected(cmd, data, guild) THEN NoMatch
    ELSE IF data.hasOptions /\ cmd.subcommands # <<>>
         THEN LET used_subcommand == get_used_subcommand(copy(Dicts(data.options)).list)
              IN IF used_subcommand.raised THEN TypeError
                 ELSE IF used_subcommand.name # "None"
                      THEN recursively_get_subcommand(cmd.subcommands,
                                                      used_subcommand.name, 1)
                 ELSE Self
    ELSE Self

\* subcommand trees: none; the group user with get (subcommand_groups.py);
\* a subcommand get next to that group; two groups with equally named children
Trees ==
    { <<>>,
      <<Sub("user", TRUE, <<Sub("get", FALSE, <<>>)>>)>>,
      <<Sub("get", FALSE, <<>>), Sub("user", TRUE, <<Sub("get", FALSE, <<>>)>>)>>,
      <<Sub("user", TRUE, <<Sub("get", FALSE, <<>>)>>),
        Sub("role", TRUE, <<Sub("get", FALSE, <<>>)>>)>>,
      <<Sub("user", TRUE, <<set_name(Sub("get", FALSE, <<>>), "role")>>)>> }

\* guild_ids=None, [1] or [1, 2]; global_command defaults to `not guild_ids`
\* (lines 1316-1317) unless given
Commands ==
    {[name |-> "permissions", type |-> t, global_command |-> g,
      has_guild_ids |-> h, guild_ids |-> ids, subcommands |-> tree] :
        t \in {1, 2}, g \in BOOLEAN, h \in BOOLEAN, ids \in {{}, {1}, {1, 2}},
        tree \in Trees}

RegisteredCommands ==
    {c \in Commands : /\ (c.type # 1 => c.subcommands = <<>>)
                      /\ (~c.has_guild_ids => c.guild_ids = {})}

OptionPayloads ==
    {<<>>, <<Leaf(3, "text")>>}
    \cup {<<Leaf(1, n)>> : n \in CommandNames}
    \cup {<<Entry(2, g, TRUE, <<Leaf(1, n)>>)>> : g, n \in CommandNames}
    \cup {<<Entry(2, g, TRUE, <<>>)>> : g \in CommandNames}
    \cup {<<Leaf(2, g)>> : g \in CommandNames}

Payloads ==
    {[name |-> n, type |-> t, hasOptions |-> TRUE, options |-> os] :
        n \in {"permissions", "other"}, t \in {1, 2}, os \in OptionPayloads}
    \cup {[name |-> n, type |-> t, hasOptions |-> FALSE, options |-> <<>>] :
        n \in {"permissions", "other"}, t \in {1, 2}}

InitMatch ==
    /\ command \in RegisteredCommands
    /\ payload \in Payloads
    /\ guild_id \in {GuildNone} \cup GuildIds
    /\ used = Pending
    /\ data_options = Dicts(payload.options)

MatchIdle ==
    /\ command = [name |-> "permissions", type |-> 1, global_command |-> TRUE,
                  has_guild_ids |-> FALSE, guild_ids |-> {}, subcommands |-> <<>>]
    /\ payload = [name |-> "permissions", type |-> 1, hasOptions |-> FALSE,
                  options |-> <<>>]
    /\ guild_id = GuildNone
    /\ used = Pending
    /\ data_options = <<>>

GetUsedCommand ==
    /\ used = Pending
    /\ used' = get_used_command(command, payload, guild_id)
    /\ data_options' = options_after_call(command, payload, guild_id)
    /\ UNCHANGED <<command, payload, guild_id>>

\* --------------------------------------------------------------- to_dict
MaxOwnOptions == 3  \* options a command class declares or is given
MaxChildren == 2    \* subcommands of the command

VARIABLES
    own,         \* cls.__application_command_options__, in dict order
    children,    \* cls.__application_command_subcommands__, in dict order
    meta,        \* the command's type, and whether it has a description
    sent         \* what to_dict() returned once it has been called

dictVars == <<own, children, meta, sent>>

OptionNames == {<<"a", "b", "c", "d">>[i] : i \in 1..MaxOwnOptions}
ChildNames == {<<"user", "role", "get">>[i] : i \in 1..MaxChildren}

\* the description given to an option or to a subcommand of that name
Doc(name) ==
    CASE name = "user" -> "Commands about users"
      [] name = "role" -> "Commands about roles"
      [] name = "get" -> "Get the permissions"
      [] OTHER -> "An option"

\* an ApplicationCommandOption stored in an ordered dict under `key`
Declared(key, type, required) ==
    [key |-> key, name |-> key, type |-> type, required |-> required,
     description |-> Doc(key), options |-> <<>>]

\* a subcommand class stored in its parent's dict under `key`
Subcommand(key, group, opts, subs) ==
    [key |-> key, name |-> key, group |-> group, description |-> Doc(key),
     options |-> opts, subcommands |-> subs]

\* the subcommands used here: a plain subcommand without and with an option,
\* a group without and with a subcommand of its own, and a subcommand and a
\* group's subcommand whose class body declares an optional option before a
\* required one
Shapes == {"bare", "leaf", "empty_group", "group", "mixed", "mixed_group"}

\* the options of a class body that declares `size` with a default before
\* `id` without one
OptionalFirst == <<Declared("size", 4, "False"), Declared("id", 4, "True")>>

ChildCommand(key, shape) ==
    Subcommand(key, shape \in {"empty_group", "group", "mixed_group"},
               CASE shape \in {"leaf", "group"} -> <<Declared("size", 4, "False")>>
                 [] shape = "mixed" -> OptionalFirst
                 [] OTHER -> <<>>,
               CASE shape = "group" ->
                      <<Subcommand("get", FALSE, <<Declared("id", 4, "True")>>, <<>>)>>
                 [] shape = "mixed_group" ->
                      <<Subcommand("get", FALSE, OptionalFirst, <<>>)>>
                 [] OTHER -> <<>>)

\* dict[key] = value: an existing key keeps its position
SetItem(dict, entry) ==
    IF \E i \in DOMAIN dict : dict[i].key = entry.key
    THEN [i \in DOMAIN dict |-> IF dict[i].key = entry.key THEN entry ELSE dict[i]]
    ELSE Append(dict, entry)

\* dict.pop(key, None)
Pop(dict, key) == SelectSeq(dict, LAMBDA e : e.key # key)

SubcommandType(cmd) == IF cmd.group THEN 2 ELSE 1

as_option_without_options(cmd) ==
    [key |-> cmd.key, name |-> cmd.name, type |-> SubcommandType(cmd),
     required |-> MISSING, description |-> cmd.description, options |-> <<>>]

\* _as_option (lines 1377-1385): the option standing for a subcommand, with
\* the subcommand's own options
as_option(cmd) ==
    [key |-> cmd.key, name |-> cmd.name, type |-> SubcommandType(cmd),
     required |-> MISSING, description |-> cmd.description,
     options |-> cmd.options]

\* lines 1500-1510: the option synthesized for a child: its own options, then
\* one option per grandchild; `required` is not passed and stays MISSING
Synthesized(child) ==
    [key |-> child.key, name |-> child.name, type |-> SubcommandType(child),
     required |-> MISSING, description |-> child.description,
     options |-> child.options \o
                 [i \in DOMAIN child.subcommands |-> as_option(child.subcommands[i])]]

SortKeyRequiredFirst(option) == IF NotRequired(option.required) THEN 0 ELSE 1

\* key=lambda o: not o.required  (False sorts before True)
SortKey(option) == IF NotRequired(option.required) THEN 1 ELSE 0

\* sorted(list, key=...): stable, built by inserting each element after the
\* elements whose key is not greater
RECURSIVE InsertSorted(_, _)
InsertSorted(list, option) ==
    IF list = <<>> THEN <<option>>
    ELSE IF SortKey(Head(list)) <= SortKey(option)
         THEN <<Head(list)>> \o InsertSorted(Tail(list), option)
    ELSE <<option>> \o list

RECURSIVE sorted(_)
sorted(list) ==
    IF list = <<>> THEN <<>>
    ELSE InsertSorted(sorted(SubSeq(list, 1, Len(list) - 1)), list[Len(list)])

\* ApplicationCommandOption.to_dict(): 'required' is present unless MISSING,
\* 'options' is present unless empty (an absent list is written <<>>)
RECURSIVE OptionToDict(_)
OptionToDict(option) ==
    [name |-> option.name, type |-> option.type,
     description |-> option.description,
     required |-> IF option.required = MISSING THEN "absent" ELSE option.required,
     options |-> [i \in DOMAIN option.options |-> OptionToDict(option.options[i])]]

NotSent == [called |-> FALSE, raised |-> FALSE, keys |-> {}, options |-> <<>>]

\* to_dict(): the keys of the payload and its 'options' (an absent list is
\* written <<>>), or that it raised
to_dict(info, opts, subcommands) ==
    LET extra == [i \in DOMAIN subcommands |-> Synthesized(subcommands[i])]
        ordered == sorted(opts \o extra)
        base == {"name", "type", "default_permission"}
    IN IF info.type # "slash"
       THEN [called |-> TRUE, raised |-> FALSE, keys |-> base, options |-> <<>>]
       ELSE IF ~info.described
       THEN [called |-> TRUE, raised |-> TRUE, keys |-> {}, options |-> <<>>]
       ELSE [called |-> TRUE, raised |-> FALSE,
             keys |-> base \cup {"description"}
                      \cup (IF ordered # <<>> THEN {"options"} ELSE {}),
             options |-> [i \in DOMAIN ordered |-> OptionToDict(ordered[i])]]

RECURSIVE Arrangements(_, _)
\* the sequences of at most n elements of S without repetition
Arrangements(S, n) ==
    IF n = 0 THEN {<<>>}
    ELSE LET shorter == Arrangements(S, n - 1)
         IN shorter \cup {Append(q, x) : q \in {r \in shorter : Len(r) = n - 1},
                                          x \in S}

Distinct(q) == \A i, j \in DOMAIN q : i # j => q[i] # q[j]

\* class definition: the options of the class body
InitOwn ==
    \E names \in {q \in Arrangements(OptionNames, 2) : Distinct(q)} :
      \E req \in [DOMAIN names -> Requireds] :
        own = [i \in DOMAIN names |-> Declared(names[i], 3, req[i])]

\* class definition of a slash command with a docstring: the options of the
\* class body and the children declared with parent=
InitDict ==
    /\ InitOwn
    /\ \E names \in {q \in Arrangements(ChildNames, 1) : Distinct(q)} :
         \E group \in [DOMAIN names -> {"bare", "empty_group"}] :
           children = [i \in DOMAIN names |-> ChildCommand(names[i], group[i])]
    /\ meta = [type |-> "slash", described |-> TRUE]
    /\ sent = NotSent

\* class definition of a command of any kind, with or without a docstring,
\* whose children have options and subcommands of their own
InitSerialize ==
    /\ own \in {<<>>, <<Declared("a", 3, "False")>>,
                <<Declared("a", 3, "False"), Declared("b", 3, "True")>>}
    /\ \E names \in {q \in Arrangements(ChildNames, MaxChildren) : Distinct(q)} :
         \E shape \in [DOMAIN names -> Shapes] :
           children = [i \in DOMAIN names |-> ChildCommand(names[i], shape[i])]
    /\ meta \in [type : {"slash", "user", "message"}, described : BOOLEAN]
    /\ sent = NotSent

DictIdle ==
    /\ own = <<>>
    /\ children = <<>>
    /\ meta = [type |-> "slash", described |-> TRUE]
    /\ sent = NotSent

\* to_dict() changes nothing, so the mutators are followed up to the call only
add_option ==
    /\ ~sent.called
    /\ \E name \in OptionNames, required \in Requireds :
         own' = SetItem(own, Declared(name, 3, required))
    /\ UNCHANGED <<children, meta, sent>>

remove_option ==
    /\ ~sent.called
    /\ \E name \in OptionNames : own' = Pop(own, name)
    /\ UNCHANGED <<children, meta, sent>>

add_subcommand ==
    /\ ~sent.called
    /\ \E name \in ChildNames, shape \in {"bare", "empty_group"} :
         children' = SetItem(children, ChildCommand(name, shape))
    /\ UNCHANGED <<own, meta, sent>>

ToDict ==
    /\ ~sent.called
    /\ sent' = to_dict(meta, own, children)
    /\ UNCHANGED <<own, children, meta>>

DictNext ==
    \/ add_option
    \/ remove_option
    \/ add_subcommand
    \/ ToDict

\* a command whose options are those of its class body: subcommands are
\* attached, then it is serialized
SerializeNext ==
    \/ add_subcommand
    \/ ToDict

\* ------------------------------------------------- class-body option harvester
MaxArms == 3        \* arms of a Union annotation

VARIABLES
    annotation,  \* the resolved annotation of the attribute (line 610)
    attr,        \* the option made by application_command_option(...)
    harvested,   \* outcome of _get_options for the attribute
    decl,        \* the class statement: its bases and keyword arguments
    parent_subcommands,  \* parent.__application_command_subcommands__
    cls          \* the class the statement made (or that it raised)

defineVars == <<annotation, attr, harvested, decl, parent_subcommands, cls>>

\* an arm of an annotation: a type, or Literal[...] with its values
PlainArm(t) == [t |-> t, lit |-> <<>>]
LiteralArm(values) == [t |-> "Literal", lit |-> values]
NoneType == PlainArm("NoneType")
Lit(t, v) == [t |-> t, v |-> v]

\* OPTION_TYPE_MAPPING.get(type), 0 for None
OPTION_TYPE_MAPPING(t) ==
    IF t = "str" THEN 3
    ELSE IF t = "int" THEN 4
    ELSE IF t = "bool" THEN 5
    ELSE IF t \in {"User", "Member"} THEN 6
    ELSE IF t \in {"GuildChannel", "TextChannel", "VoiceChannel",
                   "StageChannel", "CategoryChannel", "Thread"} THEN 7
    ELSE IF t = "Role" THEN 8
    ELSE IF t = "Object" THEN 9
    ELSE IF t = "float" THEN 10
    ELSE IF t = "Attachment" THEN 11
    ELSE 0

\* CHANNEL_TYPE_MAPPING.get(type) as a set: empty for None
CHANNEL_TYPE_MAPPING(t) ==
    IF t = "TextChannel" THEN {"text"}
    ELSE IF t = "VoiceChannel" THEN {"voice"}
    ELSE IF t = "StageChannel" THEN {"stage_voice"}
    ELSE IF t = "CategoryChannel" THEN {"category"}
    ELSE IF t = "Thread" THEN {"public_thread"}
    ELSE {}

\* _transform_literal_choices(attr_name, attr_type, annotation), from value i
RECURSIVE transform_literal_choices(_, _, _, _)
transform_literal_choices(attr_type, values, i, acc) ==
    IF i > Len(values) THEN acc
    ELSE LET arg_type == values[i].t
         IN IF arg_type \notin {"str", "int", "float"}
            THEN [acc EXCEPT !.raised = TRUE]
            ELSE IF acc.annotation_type # MISSING /\ arg_type # acc.annotation_type
            THEN [acc EXCEPT !.raised = TRUE]
            ELSE IF attr_type # 0 /\ arg_type # acc.annotation_type
            THEN [acc EXCEPT !.raised = TRUE]
            ELSE transform_literal_choices(attr_type, values, i + 1,
                    [acc EXCEPT !.annotation_type = arg_type,
                                !.choices = Append(@, [name |-> values[i].v,
                                                       value |-> values[i]])])

NonNullArmsKept(args) == args

\* lines 617-620: the arms of the union without NoneType
NonNullArms(args) == SelectSeq(args, LAMBDA arm : arm # NoneType)

\* lines 622-631: the loop over the arms of a union, from arm i
RECURSIVE UnionArms(_, _, _, _)
UnionArms(attr_type, args, i, acc) ==
    IF i > Len(args) \/ acc.raised THEN acc
    ELSE LET arg == args[i]
             literal == IF arg.t = "Literal"
                        THEN transform_literal_choices(attr_type, arg.lit, 1,
                                [acc EXCEPT !.annotation_type = MISSING])
                        ELSE [acc EXCEPT !.annotation_type = arg.t]
         IN UnionArms(attr_type, args, i + 1,
                [literal EXCEPT !.channel_types = @ \cup CHANNEL_TYPE_MAPPING(arg.t)])

RequiredAsPassed(option, ann) == option.required

\* lines 616-619: a None arm of a union sets attr.required = False
HarvestedRequired(option, ann) ==
    IF ann.origin = "Union" /\ \E i \in DOMAIN ann.args : ann.args[i] = NoneType
    THEN "False" ELSE option.required

TypeNeverUnset(option) == FALSE

\* line 652: attr.type is MISSING
TypeUnset(option) == option.type = 0

\* _get_options for one attribute; attr.type = 0 stands for MISSING
get_options(option, ann) ==
    LET start == [raised |-> FALSE, annotation_type |-> MISSING,
                  choices |-> <<>>, channel_types |-> {}]
        isUnion == ann.origin = "Union"
        required == HarvestedRequired(option, ann)
        seen == IF isUnion
                THEN UnionArms(option.type, NonNullArms(ann.args), 1, start)
                ELSE IF ann.origin = "Literal"
                THEN transform_literal_choices(option.type, ann.args[1].lit, 1, start)
                ELSE [start EXCEPT !.annotation_type = ann.args[1].t]
        resolved_option_type == OPTION_TYPE_MAPPING(seen.annotation_type)
        failure == [raised |-> TRUE, type |-> 0, required |-> required,
                    choices |-> <<>>, channel_types |-> {}]
    IN IF ann.origin = "absent"
       THEN IF TypeUnset(option) THEN failure
            ELSE [raised |-> FALSE, type |-> option.type, required |-> required,
                  choices |-> <<>>, channel_types |-> {}]
       ELSE IF seen.raised \/ resolved_option_type = 0 THEN failure
       ELSE [raised |-> FALSE,
             type |-> IF option.type = 0 THEN resolved_option_type ELSE option.type,
             required |-> required,
             choices |-> seen.choices,
             channel_types |-> seen.channel_types \cup
                 (IF ann.origin = "plain" THEN CHANNEL_TYPE_MAPPING(ann.args[1].t)
                  ELSE {})]

Arms ==
    {PlainArm(t) : t \in {"NoneType", "str", "int", "TextChannel",
                          "VoiceChannel", "dict"}}
    \cup {LiteralArm(<<Lit("str", "Dog"), Lit("str", "Cat")>>),
          LiteralArm(<<Lit("str", "Dog"), Lit("int", "1")>>)}

Annotations ==
    {[origin |-> "absent", args |-> <<>>]}
    \cup {[origin |-> IF arm.t = "Literal" THEN "Literal" ELSE "plain",
           args |-> <<arm>>] : arm \in Arms \ {NoneType}}
    \cup {[origin |-> "Union", args |-> q] :
            q \in {r \in Arrangements(Arms, MaxArms) : Len(r) >= 2 /\ Distinct(r)}}

NotHarvested ==
    [done |-> FALSE, raised |-> FALSE, type |-> 0, required |-> "True",
     choices |-> <<>>, channel_types |-> {}]

\* ApplicationCommandType members
Kinds == {"slash", "user", "message"}

NoParent == [name |-> "None", type |-> "None", subcommands |-> <<>>]

\* a registered child of a parent: dict key and the class stored under it
Child(key, class) == [key |-> key, cls |-> class]

ParentClass(name, type, subcommands) ==
    [name |-> name, type |-> type, subcommands |-> subcommands]

\* getattr(base, '__application_command_type__', MISSING) for each base of
\* cls.__mro__, the class itself first; BaseApplicationCommand and object do
\* not have the attribute
Mro(nearest, root) == <<nearest, nearest, root, MISSING, MISSING>>

\* _traverse_mro_for_attr: walks reversed(cls.__mro__) from position i down
\* and stops at the first base that has the attribute
RECURSIVE traverse_mro_for_attr(_, _)
traverse_mro_for_attr(mro, i) ==
    IF i = 0 THEN MISSING
    ELSE IF mro[i] = MISSING THEN traverse_mro_for_attr(mro, i - 1)
    ELSE mro[i]

\* str.lower() on the names used here
Lower(name) ==
    CASE name = "Get" -> "get"
      [] name = "Role" -> "role"
      [] OTHER -> name

ParentKindOnlyChecked(parent, type) ==
    parent # NoParent /\ parent.type # "slash"

\* lines 1273-1278: both the parent and the new command must be slash
ParentRejected(parent, type) ==
    parent # NoParent /\ (parent.type # "slash" \/ type # "slash")

NotDefined ==
    [done |-> FALSE, raised |-> FALSE, bound |-> FALSE, name |-> "None",
     type |-> "None", parent |-> "None", group |-> FALSE]

\* BaseApplicationCommand.__init_subclass__
init_subclass(d, option, ann, subcommands_of_parent) ==
    LET type == IF d.type = MISSING
                THEN traverse_mro_for_attr(d.mro, Len(d.mro)) ELSE d.type
        given == IF d.name = "None" THEN d.class ELSE d.name
        name == IF type = "slash" THEN Lower(given) ELSE given
        result == get_options(option, ann)
        harvest == [done |-> TRUE, raised |-> result.raised,
                    type |-> result.type, required |-> result.required,
                    choices |-> result.choices,
                    channel_types |-> result.channel_types]
        failed == [NotDefined EXCEPT !.done = TRUE, !.raised = TRUE]
    IN IF ParentRejected(d.parent, type)
          \/ (type # MISSING /\ type \notin Kinds)
       THEN [cls |-> failed, harvested |-> NotHarvested,
             parent_subcommands |-> subcommands_of_parent]
       ELSE IF result.raised
       THEN [cls |-> failed, harvested |-> harvest,
             parent_subcommands |-> subcommands_of_parent]
       ELSE [cls |-> [done |-> TRUE, raised |-> FALSE, bound |-> TRUE,
                      name |-> name, type |-> type, parent |-> d.parent.name,
                      group |-> d.group],
             harvested |-> harvest,
             parent_subcommands |->
                 IF d.parent # NoParent
                 THEN SetItem(subcommands_of_parent, Child(name, d.class))
                 ELSE subcommands_of_parent]

Declaration(mro, type, name, parent, group) ==
    [class |-> "Role", mro |-> mro, type |-> type, name |-> name,
     parent |-> parent, group |-> group]

\* class Role(discord.SlashCommand): ...
PlainDeclaration ==
    Declaration(Mro("slash", "slash"), MISSING, "None", NoParent, FALSE)

Parents ==
    {NoParent}
    \cup {ParentClass("Permissions", "slash", q) :
             q \in {<<>>, <<Child("get", "Old")>>}}
    \cup {ParentClass("Info", "user", <<>>)}

Declarations ==
    {Declaration(mro, type, name, parent, group) :
        mro \in {Mro(k, k) : k \in Kinds} \cup {Mro("user", "slash")},
        type \in {MISSING, "int"} \cup Kinds,
        name \in {"None", "Get", "get"},
        parent \in Parents,
        group \in BOOLEAN}

\* one option with every annotation shape, in a plain top-level slash command
InitAnnotations ==
    /\ annotation \in Annotations
    /\ attr \in [type : {0, 3, 7}, required : {"True", "False"}]
    /\ decl = PlainDeclaration

\* every class statement, around one option that may lack its type
InitDeclarations ==
    /\ annotation \in {[origin |-> "absent", args |-> <<>>],
                        [origin |-> "plain", args |-> <<PlainArm("str")>>],
                        [origin |-> "plain", args |-> <<PlainArm("dict")>>]}
    /\ attr \in [type : {0, 3}, required : {"True"}]
    /\ decl \in Declarations

InitDefine ==
    /\ InitAnnotations \/ InitDeclarations
    /\ harvested = NotHarvested
    /\ parent_subcommands = decl.parent.subcommands
    /\ cls = NotDefined

DefineIdle ==
    /\ annotation = [origin |-> "absent", args |-> <<>>]
    /\ attr = [type |-> 3, required |-> "True"]
    /\ harvested = NotHarvested
    /\ decl = PlainDeclaration
    /\ parent_subcommands = <<>>
    /\ cls = NotDefined

\* the class statement: __init_subclass__ runs _get_options (line 1306); when
\* it raises the statement fails and no class is bound
DefineClass ==
    /\ ~cls.done
    /\ LET made == init_subclass(decl, attr, annotation, parent_subcommands)
       IN /\ cls' = made.cls
          /\ harvested' = made.harvested
          /\ parent_subcommands' = made.parent_subcommands
    /\ UNCHANGED <<annotation, attr, decl>>

\* ------------------------------------------- ApplicationCommandOptions
MaxBuilds == 2

VARIABLES
    ctx,         \* guild_id, resolved_data and the cache (state) of a build
    declared,    \* command_options: the options the command declares
    data,        \* the interaction payload's 'options' (None or a list)
    built        \* the ApplicationCommandOptions constructed so far

resolveVars == <<ctx, declared, data, built>>

\* an entry of the payload's option list
PayloadOption(type, name, value, focused, hasOptions, nested) ==
    [type |-> type, name |-> name, value |-> value, focused |-> focused,
     hasOptions |-> hasOptions, options |-> nested]

\* the raw id of the entity the user picked
RawId == [k |-> "str", x |-> "7"]

Value(type, name) ==
    PayloadOption(type, name, IF type = 3 THEN StrGiven ELSE RawId,
                  FALSE, FALSE, <<>>)

Focused(type, name) == PayloadOption(type, name, StrGiven, TRUE, FALSE, <<>>)

\* a subcommand (1) or subcommand group (2) entry carrying nested options
Marker(type, name, nested) ==
    PayloadOption(type, name, NoneV, FALSE, TRUE, nested)

\* a subcommand entry with neither 'options' nor 'value'
BareMarker(name) == PayloadOption(1, name, NoneV, FALSE, FALSE, <<>>)

\* a resolved value: the object and where it came from ("cache",
\* "resolved" payload, or built from the raw "id" alone)
Entity(kind, origin) == [k |-> kind, x |-> origin]

Stored(v) == [raised |-> FALSE, value |-> v]
KeyError == [raised |-> TRUE, value |-> NoneV]

\* state._get_guild(guild_id): the cached guild or None
get_guild(c) == c.guild_id # GuildNone /\ c.state.guild

\* guild.get_member(id), guild.get_role(id), guild._resolve_channel(id) and
\* state.get_user(id): the cached object, None on a miss
get_member(c) == c.state.member
get_role(c) == c.state.role
resolve_channel(c) == c.state.channel
get_user(c) == c.state.user

\* lines 747-771
ResolveUser(c) ==
    LET resolved_user == c.resolved.users
        guild == get_guild(c)
    IN IF c.guild_id # GuildNone
       THEN IF guild /\ get_member(c) THEN Entity("Member", "cache")
            ELSE IF get_user(c) THEN Entity("User", "cache")
            ELSE IF resolved_user
            THEN IF c.resolved.members THEN Entity("Member", "resolved")
                 ELSE Entity("User", "resolved")
            ELSE Entity("Object", "id")
       ELSE IF resolved_user THEN Entity("User", "resolved")
            ELSE Entity("Object", "id")

\* lines 772-781
ResolveChannel(c) ==
    IF get_guild(c) /\ resolve_channel(c) THEN Entity("Channel", "cache")
    ELSE Entity("PartialMessageable", "id")

\* lines 782-792
ResolveRole(c) ==
    IF get_guild(c) /\ get_role(c) THEN Entity("Role", "cache")
    ELSE IF c.resolved.roles THEN Entity("Role", "resolved")
    ELSE Entity("Object", "id")

\* lines 793-825.  In a guild the KeyError of the resolved-data lookups is
\* caught by the inner handler (line 803), so the outer handler with the
\* role lookups (lines 807-816) is never entered.
ResolveMention(c) ==
    IF c.guild_id # GuildNone
    THEN IF get_guild(c) /\ get_member(c) THEN Entity("Member", "cache")
         ELSE IF c.resolved.users /\ c.resolved.members
         THEN Entity("Member", "resolved")
         ELSE Entity("Object", "id")
    ELSE IF get_user(c) THEN Entity("User", "cache")
         ELSE IF c.resolved.users THEN Entity("User", "resolved")
         ELSE Entity("Object", "id")

\* lines 826-828: the lookup is not guarded
ResolveAttachment(c) ==
    IF c.resolved.attachments THEN Stored(Entity("Attachment", "resolved"))
    ELSE KeyError

\* lines 744-828: the value stored for an entry with a value
ResolveValue(option, c) ==
    IF option.type = 6 THEN Stored(ResolveUser(c))
    ELSE IF option.type = 7 THEN Stored(ResolveChannel(c))
    ELSE IF option.type = 8 THEN Stored(ResolveRole(c))
    ELSE IF option.type = 9 THEN Stored(ResolveMention(c))
    ELSE IF option.type = 11 THEN ResolveAttachment(c)
    ELSE Stored(option.value)

Pair(key, value) == [key |-> key, value |-> value]

\* lines 728-830: the loop over the work list; acc.work is the list as the
\* loop leaves it
RECURSIVE ResolveLoop(_, _, _)
ResolveLoop(work, acc, c) ==
    IF work = <<>> THEN [acc EXCEPT !.work = work]
    ELSE LET option == Head(work)
             rest == Tail(work)
         IN IF option.hasOptions THEN ResolveLoop(rest \o option.options, acc, c)
            ELSE IF option.focused THEN ResolveLoop(rest, acc, c)
            ELSE IF option.value = NoneV THEN ResolveLoop(rest, acc, c)
            ELSE LET r == ResolveValue(option, c)
                 IN IF r.raised THEN [acc EXCEPT !.raised = TRUE, !.work = rest]
                    ELSE ResolveLoop(rest,
                            [acc EXCEPT !.map = SetItem(@, Pair(option.name, r.value))],
                            c)

SameList(list) == [alias |-> TRUE, items |-> list]

\* line 726: options[:] is a new list holding the same entries
CopyOf(list) == [alias |-> FALSE, items |-> list]

NothingPreset(command_options) == <<>>

\* line 722: every option that is not required starts as None
Unprovided(command_options) ==
    LET optional == SelectSeq(command_options,
                              LAMBDA o : NotRequired(o.required))
    IN [i \in DOMAIN optional |-> Pair(optional[i].name, NoneV)]

\* ApplicationCommandOptions.__init__: the object's dict (or that the
\* constructor raised) and the caller's payload list as the call leaves it
ApplicationCommandOptions_init(c, d, command_options) ==
    LET start == [raised |-> FALSE, map |-> Unprovided(command_options),
                  work |-> <<>>]
    IN IF d.none THEN [raised |-> FALSE, map |-> start.map, data |-> d]
       ELSE LET list == CopyOf(d.options)
                end == ResolveLoop(list.items, start, c)
            IN [raised |-> end.raised, map |-> end.map,
                data |-> IF list.alias THEN [d EXCEPT !.options = end.work]
                         ELSE d]

\* x.__application_command_options__ has the key
HasKey(map, key) == \E i \in DOMAIN map : map[i].key = key

\* __contains__ (line 858): the test `is not None` is on the name
contains(map, option) == HasKey(map, option) /\ option # "None"

\* __len__ (line 855)
len(map) == Cardinality({i \in DOMAIN map : map[i].value # NoneV})

Caches ==
    {[guild |-> g, member |-> m, user |-> u, role |-> r, channel |-> ch] :
        g \in BOOLEAN, m \in BOOLEAN, u \in BOOLEAN, r \in BOOLEAN,
        ch \in BOOLEAN}

\* resolved_data: None (or empty), or the sections holding the raw id
ResolvedData ==
    [users : BOOLEAN, members : BOOLEAN, roles : BOOLEAN, attachments : BOOLEAN]

\* a DM has no guild, and a guild that is not cached has no cached members,
\* roles or channels
Contexts ==
    {[guild_id |-> g, state |-> st, resolved |-> rd] :
        g \in {GuildNone, 1}, st \in Caches, rd \in ResolvedData}
    \ {c \in [guild_id : {GuildNone, 1}, state : Caches, resolved : ResolvedData] :
          \/ c.guild_id = GuildNone /\ c.state.guild
          \/ ~c.state.guild /\ (c.state.member \/ c.state.role \/ c.state.channel)}

EntityTypes == {6, 7, 8, 9, 11}

OptionData ==
    {[none |-> TRUE, options |-> <<>>]}
    \cup {[none |-> FALSE, options |-> q] : q \in
            {<<Value(t, "target")>> : t \in EntityTypes \cup {3}}
            \cup {<<Marker(1, "get", <<Value(t, "target")>>)>> : t \in {6, 9, 11}}
            \cup {<<Marker(2, "user", <<Marker(1, "get", <<Value(8, "target")>>)>>)>>,
                  <<Value(3, "text"), Value(6, "target")>>,
                  <<Value(9, "target"), Value(3, "text")>>,
                  <<Focused(3, "text")>>,
                  <<Marker(1, "get", <<>>)>>,
                  <<BareMarker("get")>>}}

InitResolve ==
    /\ ctx \in Contexts
    /\ \E req \in [1..2 -> {"True", "False"}] :
         declared = <<[name |-> "target", required |-> req[1]],
                      [name |-> "text", required |-> req[2]]>>
    /\ data \in OptionData
    /\ built = <<>>

ResolveIdle ==
    /\ ctx = [guild_id |-> GuildNone,
              state |-> [guild |-> FALSE, member |-> FALSE, user |-> FALSE,
                         role |-> FALSE, channel |-> FALSE],
              resolved |-> [users |-> FALSE, members |-> FALSE,
                            roles |-> FALSE, attachments |-> FALSE]]
    /\ declared = <<>>
    /\ data = [none |-> TRUE, options |-> <<>>]
    /\ built = <<>>

\* ApplicationCommandOptions(guild_id=..., options=..., resolved_data=...,
\* state=..., command_options=...)
Construct ==
    /\ Len(built) < MaxBuilds
    /\ LET made == ApplicationCommandOptions_init(ctx, data, declared)
       IN /\ built' = Append(built, [raised |-> made.raised, map |-> made.map,
                                     before |-> data])
          /\ data' = made.data
    /\ UNCHANGED <<ctx, declared>>

\* ------------------------------------------------------------ autocomplete
MaxChoices == 2

VARIABLES
    autocomplete,  \* option._autocomplete and what the handler produces
    responses,     \* the interaction responses sent through the adapter
    completion     \* whether _define_autocomplete_result ran, and raised

autoVars == <<autocomplete, responses, completion>>

\* InteractionResponseType.application_command_autocomplete_result.value
application_command_autocomplete_result == 8

\* what a handler yields: a bare value or an ApplicationCommandOptionChoice
Bare(v) == [choice |-> FALSE, name |-> "", value |-> v]
ApplicationCommandOptionChoice(name, v) == [choice |-> TRUE, name |-> name, value |-> v]

Str(text) == [k |-> "str", x |-> text]

AnyValueIsChoiceValue(v) == TRUE

\* isinstance(value, (str, int, float)); bool is a subclass of int
IsChoiceValue(v) == v.k \in {"str", "int", "float", "bool"}

ChoiceDictValueAsName(item) == [name |-> item.value, value |-> item.value]

\* lines 335-345: the name and value of one choice
ChoiceDict(item) ==
    IF item.choice THEN [name |-> Str(item.name), value |-> item.value]
    ELSE [name |-> item.value, value |-> item.value]

\* lines 334-345: the loop over the choices, from choice i
RECURSIVE Choices(_, _, _)
Choices(results, i, acc) ==
    IF i > Len(results) THEN [raised |-> FALSE, choices |-> acc]
    ELSE LET entry == ChoiceDict(results[i])
         IN IF ~IsChoiceValue(entry.value)
            THEN [raised |-> TRUE, choices |-> acc]
            ELSE Choices(results, i + 1, Append(acc, entry))

Yielded ==
    {Bare(Str("Apple")), Bare(Str("Apricot")), Bare(Int5), Bare(NoneV),
     ApplicationCommandOptionChoice("Red apple", Str("apple"))}

Handlers ==
    {[kind |-> "None", results |-> <<>>, raises |-> FALSE]}
    \cup {[kind |-> kind, results |-> q, raises |-> e] :
            kind \in {"coroutine", "asyncgen"},
            q \in Arrangements(Yielded, MaxChoices),
            e \in BOOLEAN}

NotCompleted == [done |-> FALSE, raised |-> FALSE]

InitAuto ==
    /\ autocomplete \in Handlers
    /\ responses = <<>>
    /\ completion = NotCompleted

AutoIdle ==
    /\ autocomplete = [kind |-> "None", results |-> <<>>, raises |-> FALSE]
    /\ responses = <<>>
    /\ completion = NotCompleted

\* ApplicationCommandOption._define_autocomplete_result
DefineAutocompleteResult ==
    /\ ~completion.done
    /\ LET made == Choices(autocomplete.results, 1, <<>>)
       IN IF autocomplete.kind = "None"
          THEN /\ completion' = [done |-> TRUE, raised |-> FALSE]
               /\ UNCHANGED responses
          ELSE IF autocomplete.raises \/ made.raised
          THEN /\ completion' = [done |-> TRUE, raised |-> TRUE]
               /\ UNCHANGED responses
          ELSE /\ completion' = [done |-> TRUE, raised |-> FALSE]
               /\ responses' = Append(responses,
                      [type |-> application_command_autocomplete_result,
                       choices |-> made.choices])
    /\ UNCHANGED autocomplete

\* ------------------------------------------------- interleaved invocations
MaxTasks == 2

VARIABLES
    cmd_options,   \* self.__application_command_options__.values(), shared
    heap,          \* the __application_command_options__ dict of each
                   \* ApplicationCommandOptions object, by object
    invocation     \* each task: its position, its response.options object,
                   \* its payload values and the options it was started with

taskVars == <<cmd_options, heap, invocation>>

Tasks == 1..MaxTasks

SharedDict(t) == 1

\* line 722: __init__ binds a new dict on the instance it constructs
OwnDict(t) == t

Waiting(values) ==
    [pc |-> "waiting", idx |-> 1, ref |-> 0, supplied |-> values,
     declared |-> <<>>]

InitTasks ==
    /\ cmd_options \in
         {<<Option(1, "False", d1), Option(2, r, d2)>> :
             d1 \in {Int5, Fn}, r \in {"True", "False"}, d2 \in {NoneV, Int5}}
    /\ heap = [t \in Tasks |-> <<>>]
    /\ \E sup \in [Tasks -> [1..2 -> {NoneV, Int0}]] :
         invocation = [t \in Tasks |-> Waiting(sup[t])]

TasksIdle ==
    /\ cmd_options = <<>>
    /\ heap = [t \in Tasks |-> <<>>]
    /\ invocation = [t \in Tasks |-> Waiting(<<>>)]

\* an interaction arrives: its ApplicationCommandOptions is constructed and
\* the task running _scheduled_task is created
Dispatch(t) ==
    /\ invocation[t].pc = "waiting"
    /\ LET ref == OwnDict(t)
       IN /\ heap' = [heap EXCEPT ![ref] =
                        ApplicationCommandOptions(cmd_options,
                                                  invocation[t].supplied)]
          /\ invocation' = [invocation EXCEPT ![t].pc = "inject",
                                              ![t].ref = ref,
                                              ![t].declared = cmd_options]
    /\ UNCHANGED cmd_options

\* lines 1392-1399 in task t: one iteration of the loop; other tasks may run
\* between two iterations (the loop awaits at line 1397)
InjectStep(t) ==
    /\ invocation[t].pc = "inject"
    /\ UNCHANGED cmd_options
    /\ LET self == invocation[t]
       IN IF self.idx > Len(cmd_options)
          THEN /\ invocation' = [invocation EXCEPT ![t].pc = "done"]
               /\ UNCHANGED heap
          ELSE LET option == cmd_options[self.idx]
               IN IF NeedsDefault(option, heap[self.ref])
                  THEN \E how \in {"sync", "async", "raise"} :
                         LET value == InjectedValue(option.default, how)
                         IN IF value = Raised
                            THEN /\ invocation' = [invocation EXCEPT ![t].pc = "done"]
                                 /\ UNCHANGED heap
                            ELSE /\ heap' = [heap EXCEPT ![self.ref] =
                                                Store(@, option.name, value)]
                                 /\ invocation' = [invocation EXCEPT
                                                     ![t].idx = self.idx + 1]
                  ELSE /\ invocation' = [invocation EXCEPT ![t].idx = self.idx + 1]
                       /\ UNCHANGED heap

TasksNext == \E t \in Tasks : Dispatch(t) \/ InjectStep(t)

\* ------------------------------------------------------------------- cogs
MaxCogs == 2
MaxEntries == 2   \* entries of the cogs' registry

VARIABLES
    cog_classes,               \* per cog instance: what its class overrides
    cog_application_commands,  \* Cog.__cog_application_commands__ (line 206)
    command_cog,               \* command._cog: a cog, or NoCog
    client_commands,           \* the client's application commands, and the
                               \* cog whose _inject registered each
    client_checks,             \* the client's application command checks
    injected,                  \* the cogs added to the client
    ejected,                   \* the cogs removed from the client again
    added,                     \* the (cog, command) pairs of the
                               \* add_application_command calls made
    command_attrs,             \* per command: the name and type of its class
                               \* and the parent set on the instance
    popped                     \* what remove_application_command returned,
                               \* when it was the last call

cogVars == <<cog_classes, cog_application_commands, command_cog,
             client_commands, client_checks, injected, ejected, added,
             command_attrs, popped>>

Cogs == 1..MaxCogs
\* _cog = None (application_commands.py line 1216)
NoCog == 0
CogCommands == {"ping", "echo"}

\* _get_key() (lines 1334-1340) is a classmethod: the name, type and parent of
\* the class, which for a top-level command has no parent; a parent set on the
\* instance by set_parent is not seen
get_key(attrs) == <<attrs.name, attrs.type, "None">>

\* a command class as defined: named after itself, a slash command
Defined(c) == [name |-> c, type |-> 1, parent |-> "None"]

NotPopped == [command |-> "None", result |-> "None", held |-> FALSE]

\* self.__cog_application_commands__ on cog b: neither __new__ (lines 208-236)
\* nor CogMeta assigns the attribute, so every instance of every subclass
\* finds the one dict of line 206
cog_registry(dict, b) == dict

\* get_application_commands (lines 354-355)
get_application_commands(dict, b) ==
    {cog_registry(dict, b)[i].value : i \in DOMAIN cog_registry(dict, b)}

InitCogs ==
    /\ cog_classes \in [Cogs -> [name : {"Music", "Admin"}, client_check : BOOLEAN]]
    /\ cog_application_commands = <<>>
    /\ command_cog = [c \in CogCommands |-> NoCog]
    /\ client_commands = [c \in CogCommands |-> [registered |-> FALSE, by |-> NoCog]]
    /\ client_checks = <<>>
    /\ injected = {}
    /\ ejected = {}
    /\ added = {}
    /\ command_attrs = [c \in CogCommands |-> Defined(c)]
    /\ popped = NotPopped

\* one cog, nothing added yet
InitKeys ==
    /\ cog_classes = [b \in Cogs |-> [name |-> "Music", client_check |-> FALSE]]
    /\ cog_application_commands = <<>>
    /\ command_cog = [c \in CogCommands |-> NoCog]
    /\ client_commands = [c \in CogCommands |-> [registered |-> FALSE, by |-> NoCog]]
    /\ client_checks = <<>>
    /\ injected = {}
    /\ ejected = {}
    /\ added = {}
    /\ command_attrs = [c \in CogCommands |-> Defined(c)]
    /\ popped = NotPopped

CogIdle ==
    /\ cog_classes = [b \in Cogs |-> [name |-> "Music", client_check |-> FALSE]]
    /\ cog_application_commands = <<>>
    /\ command_cog = [c \in CogCommands |-> NoCog]
    /\ client_commands = [c \in CogCommands |-> [registered |-> FALSE, by |-> NoCog]]
    /\ client_checks = <<>>
    /\ injected = {}
    /\ ejected = {}
    /\ added = {}
    /\ command_attrs = [c \in CogCommands |-> Defined(c)]
    /\ popped = NotPopped

\* lines 351-352
add_application_command(b, c) ==
    /\ cog_application_commands' =
         SetItem(cog_registry(cog_application_commands, b),
                 [key |-> get_key(command_attrs[c]), value |-> c])
    /\ added' = added \cup {<<b, c>>}
    /\ popped' = NotPopped
    /\ UNCHANGED <<cog_classes, command_cog, client_commands, client_checks,
                   injected, ejected, command_attrs>>

\* dict.pop(key, None): the value stored under the key, or None
PopResult(dict, key) ==
    IF \E i \in DOMAIN dict : dict[i].key = key
    THEN dict[CHOOSE i \in DOMAIN dict : dict[i].key = key].value
    ELSE "None"

\* lines 357-358
remove_application_command(b, c) ==
    /\ cog_application_commands' =
         Pop(cog_registry(cog_application_commands, b), get_key(command_attrs[c]))
    /\ popped' = [command |-> c,
                  result |-> PopResult(cog_registry(cog_application_commands, b),
                                       get_key(command_attrs[c])),
                  held |-> c \in get_application_commands(cog_application_commands, b)]
    /\ UNCHANGED <<cog_classes, command_cog, client_commands, client_checks,
                   injected, ejected, added, command_attrs>>

\* _inject (lines 489-542) of a cog without ext commands and listeners, once
\* per cog: the client check when overridden, then every command of the
\* registry the cog finds
inject(b) ==
    /\ b \notin injected
    /\ injected' = injected \cup {b}
    /\ client_checks' = IF cog_classes[b].client_check
                        THEN Append(client_checks, b) ELSE client_checks
    /\ LET commands == get_application_commands(cog_application_commands, b)
       IN /\ command_cog' = [c \in CogCommands |->
                                IF c \in commands THEN b ELSE command_cog[c]]
          /\ client_commands' = [c \in CogCommands |->
                                    IF c \in commands
                                    THEN [registered |-> TRUE, by |-> b]
                                    ELSE client_commands[c]]
    /\ popped' = NotPopped
    /\ UNCHANGED <<cog_classes, cog_application_commands, ejected, added,
                   command_attrs>>

\* _eject (lines 544-580) of an injected cog without ext commands and
\* listeners: every command of the registry the cog finds is removed from
\* the client; the checks removed are the ext command checks bot_check and
\* bot_check_once, no application command check; cog_unload does nothing
\* unless overridden
eject(b) ==
    /\ b \in injected \ ejected
    /\ ejected' = ejected \cup {b}
    /\ LET commands == get_application_commands(cog_application_commands, b)
       IN client_commands' = [c \in CogCommands |->
                                 IF c \in commands
                                 THEN [registered |-> FALSE, by |-> NoCog]
                                 ELSE client_commands[c]]
    /\ popped' = NotPopped
    /\ UNCHANGED <<cog_classes, cog_application_commands, command_cog,
                   client_checks, injected, added, command_attrs>>

CogNext ==
    \E b \in Cogs :
        \/ \E c \in CogCommands : add_application_command(b, c)
        \/ \E c \in CogCommands : remove_application_command(b, c)
        \/ inject(b)
        \/ eject(b)

CommandNamesGiven == CogCommands \cup {"pong"}

\* set_name (lines 1448-1457), set_type (lines 1459-1471) and set_parent
\* (lines 1674-1686) on a command: the registry of the cogs is not touched
SetAttrs(c, attrs) ==
    /\ command_attrs' = [command_attrs EXCEPT ![c] = attrs]
    /\ popped' = NotPopped
    /\ UNCHANGED <<cog_classes, cog_application_commands, command_cog,
                   client_commands, client_checks, injected, ejected, added>>

command_set_name(c) ==
    \E name \in CommandNamesGiven \ {command_attrs[c].name} :
        SetAttrs(c, [command_attrs[c] EXCEPT !.name = name])

command_set_type(c) ==
    \E type \in {1, 3} \ {command_attrs[c].type} :
        SetAttrs(c, [command_attrs[c] EXCEPT !.type = type])

command_set_parent(c) ==
    /\ command_attrs[c].type = 1
    /\ command_attrs[c].parent = "None"
    /\ SetAttrs(c, [command_attrs[c] EXCEPT !.parent = "admin"])

\* one cog's registry while its commands are renamed, retyped and reparented
KeysNext ==
    \E c \in CogCommands :
        \/ /\ Len(cog_application_commands) < MaxEntries
           /\ add_application_command(1, c)
        \/ remove_application_command(1, c)
        \/ command_set_name(c)
        \/ command_set_type(c)
        \/ command_set_parent(c)

\* ------------------------------------------- ApplicationCommandOption.to_dict
VARIABLES
    the_option,    \* an ApplicationCommandOption: required, min_value,
                   \* max_value and whether an autocomplete handler is set
    option_dict    \* the keys and values of its to_dict(), once called

optionVars == <<the_option, option_dict>>

Absent == [k |-> "absent", x |-> ""]
IntNeg == [k |-> "int", x |-> "-1"]

\* lines 373-377: `if self.max_value:`, `if self.min_value:`
bound_to_dict(value) == IF Truthy(value) THEN value ELSE Absent

\* to_dict (lines 354-382), the keys that do not hold lists
option_to_dict(o) ==
    [required |-> IF o.required # MISSING THEN o.required ELSE "absent",
     max_value |-> bound_to_dict(o.max_value),
     min_value |-> bound_to_dict(o.min_value),
     autocomplete |-> IF o.autocomplete THEN "True" ELSE "absent"]

Numbers == {NoneV, Int0, Int5, IntNeg}

InitOption ==
    /\ the_option \in [required : Requireds, min_value : Numbers,
                       max_value : Numbers, autocomplete : BOOLEAN]
    /\ option_dict = [called |-> FALSE]

OptionIdle ==
    /\ the_option = [required |-> MISSING, min_value |-> NoneV, max_value |-> NoneV,
                 autocomplete |-> FALSE]
    /\ option_dict = [called |-> FALSE]

OptionToDictCall ==
    /\ ~option_dict.called
    /\ option_dict' = [called |-> TRUE, payload |-> option_to_dict(the_option)]
    /\ UNCHANGED the_option

\* ---------------------------------------------------- ScheduledEvent.edit
VARIABLES
    edit_args,     \* the keyword arguments of edit(): MISSING when not supplied
    edit_payload   \* the payload handed to http.edit_scheduled_event

eventVars == <<edit_args, edit_payload>>

PayloadKeys ==
    {"channel_id", "name", "privacy_level", "scheduled_start_time",
     "scheduled_end_time", "description", "entity_type", "status",
     "entity_metadata"}

EmptyPayload == [key \in PayloadKeys |-> "absent"]

\* payload[key] = value when the argument was supplied
Put(dict, key, arg, value) ==
    IF arg # MISSING THEN [dict EXCEPT ![key] = value] ELSE dict

\* member.value of an enum member
enum_value(member) ==
    CASE member = "ScheduledEventPrivacyLevel.guild_only" -> "2"
      [] member = "ScheduledEventEntityType.external" -> "3"
      [] member = "ScheduledEventStatus.active" -> "2"
      [] OTHER -> "0"

\* a naive time is taken as UTC, an aware one is converted to UTC
isoformat(time) == IF time = "noon+02:00" THEN "10:00+00:00" ELSE "12:00+00:00"

\* edit (lines 309-351): the assignments to payload, in order
edit(a) ==
    LET p1 == Put(EmptyPayload, "channel_id", a.channel,
                  IF a.channel = "None" THEN "null" ELSE "id of " \o a.channel)
        p2 == Put(p1, "name", a.name, a.name)
        p3 == Put(p2, "privacy_level", a.privacy_level,
                  enum_value(a.privacy_level))
        p4 == Put(p3, "scheduled_start_time", a.scheduled_start_time,
                  isoformat(a.scheduled_start_time))
        p5 == Put(p4, "scheduled_end_time", a.scheduled_end_time,
                  isoformat(a.scheduled_end_time))
        p6 == Put(p5, "description", a.description, a.description)
        p7 == Put(p6, "entity_type", a.entity_type, enum_value(a.entity_type))
        p8 == Put(p7, "entity_type", a.status, enum_value(a.status))
    IN Put(p8, "entity_metadata", a.location, "location: " \o a.location)

InitEdit ==
    /\ edit_args \in
         [channel : {MISSING, "None", "stage"},
          location : {MISSING, "park"},
          name : {MISSING, "meetup"},
          privacy_level : {MISSING, "ScheduledEventPrivacyLevel.guild_only"},
          scheduled_start_time : {MISSING, "noon", "noon+02:00"},
          scheduled_end_time : {MISSING, "noon"},
          description : {MISSING, "bring snacks"},
          entity_type : {MISSING, "ScheduledEventEntityType.external"},
          status : {MISSING, "ScheduledEventStatus.active"}]
    /\ edit_payload = [sent |-> FALSE]

EventIdle ==
    /\ edit_args = [channel |-> MISSING, location |-> MISSING, name |-> MISSING,
                    privacy_level |-> MISSING, scheduled_start_time |-> MISSING,
                    scheduled_end_time |-> MISSING, description |-> MISSING,
                    entity_type |-> MISSING, status |-> MISSING]
    /\ edit_payload = [sent |-> FALSE]

Edit ==
    /\ ~edit_payload.sent
    /\ edit_payload' = [sent |-> TRUE, payload |-> edit(edit_args)]
    /\ UNCHANGED edit_args

\* ------------------------------------------------------ Modal and ModalStore
MaxAdds == 2   \* add_modal calls for the modal

VARIABLES
    modal,        \* the modal: its future, timeout task and cancel callback,
                  \* and the tasks created for it
    modal_store   \* whether store._modals holds the modal, and the
                  \* add_modal calls made

modalVars == <<modal, modal_store>>

ResolveAlways(future) == TRUE

\* not self.__stopped.done()
NotDone(future) == future = "pending"

\* Modal(timeout=...) (lines 129-148): nothing resolved, no task, no callback.
\* `resolved_by`, `stop_called`, `late_timeout` and `raised` record what
\* happened to the modal
NewModal(timeout) ==
    [timeout |-> timeout, stopped |-> "pending", timeout_task |-> "None",
     timeout_expiry |-> "None", cancel_callback |-> FALSE,
     on_timeout_tasks |-> 0, callback_tasks |-> 0, callbacks |-> 0,
     resolved_by |-> "nothing", stop_called |-> FALSE, late_timeout |-> FALSE,
     raised |-> "None"]

\* __verify_integrity (lines 427-434): a finished modal is dropped
verify_integrity(stored, m) == stored /\ m.stopped = "pending"

InitModal ==
    /\ modal \in {NewModal(t) : t \in {"None", "180"}}
    /\ modal_store = [stored |-> FALSE, adds |-> 0]

ModalIdle ==
    /\ modal = NewModal("None")
    /\ modal_store = [stored |-> FALSE, adds |-> 0]

\* ModalStore.add_modal (lines 436-440) with _start_listening_from_store
\* (lines 312-320): a timeout task is created when the modal has a timeout
add_modal ==
    /\ modal_store.adds < MaxAdds
    /\ modal' = [modal EXCEPT
                   !.cancel_callback = TRUE,
                   !.timeout_task = IF modal.timeout # "None" THEN "sleeping" ELSE @,
                   !.timeout_expiry = IF modal.timeout # "None" THEN "set" ELSE @,
                   !.raised = "None"]
    /\ modal_store' = [stored |-> TRUE, adds |-> modal_store.adds + 1]

\* ModalStore.dispatch (lines 445-457) for the modal's key: the modal found
\* after __verify_integrity gets a task running its callback and is removed
store_dispatch ==
    LET held == verify_integrity(modal_store.stored, modal)
    IN /\ modal_store.stored
       /\ modal' = [modal EXCEPT
                      !.callback_tasks = IF held THEN @ + 1 ELSE @,
                      !.raised = "None"]
       /\ modal_store' = [modal_store EXCEPT !.stored = FALSE]

\* a task created by dispatch runs _scheduled_task (lines 297-310): the
\* timeout is refreshed and the callback runs
scheduled_task ==
    /\ modal.callbacks < modal.callback_tasks
    /\ modal' = [modal EXCEPT
                   !.timeout_expiry = IF modal.timeout # "None" THEN "set" ELSE @,
                   !.callbacks = @ + 1,
                   !.raised = "None"]
    /\ UNCHANGED modal_store

\* the timeout task wakes up with the timeout elapsed (lines 153-168) and
\* calls _dispatch_timeout (lines 328-333)
timeout_elapses ==
    /\ modal.timeout_task = "sleeping"
    /\ modal' = IF NotDone(modal.stopped)
                THEN [modal EXCEPT
                        !.timeout_task = "finished",
                        !.stopped = "True",
                        !.resolved_by = "timeout",
                        !.on_timeout_tasks = @ + 1,
                        !.late_timeout = modal.stop_called,
                        !.raised = "None"]
                ELSE [modal EXCEPT !.timeout_task = "finished", !.raised = "None"]
    /\ UNCHANGED modal_store

\* Modal.stop (lines 335-350): the cancel callback is store.remove_modal
\* (line 313), whose pop (line 443) raises KeyError when the store no longer
\* holds the modal; then line 350 is not reached
stop ==
    LET resolving == NotDone(modal.stopped)
        pop_raises == modal.cancel_callback /\ ~modal_store.stored
    IN /\ modal' = [modal EXCEPT
                      !.stopped = IF resolving THEN "False" ELSE @,
                      !.resolved_by = IF resolving THEN "stop" ELSE @,
                      !.timeout_task = "None",
                      !.timeout_expiry = "None",
                      !.stop_called = TRUE,
                      !.cancel_callback = IF pop_raises THEN @ ELSE FALSE,
                      !.raised = IF pop_raises THEN "KeyError" ELSE "None"]
       /\ modal_store' = [modal_store EXCEPT
                            !.stored = IF modal.cancel_callback THEN FALSE ELSE @]

ModalNext ==
    \/ add_modal
    \/ store_dispatch
    \/ scheduled_task
    \/ timeout_elapses
    \/ stop

\* ----------------------------------------------------------- MemberIterator
MaxMembers == 2500   \* members of the largest guild

\* the page size of _get_retrieve and fill_members (lines 669, 684)
PageSize == 1000

VARIABLES
    guild_members,    \* how many members the guild has
    member_iterator   \* the iterator: its limit, how many members lie before
                      \* `after`, the length of its queue, and what it did

iterVars == <<guild_members, member_iterator>>

\* MemberIterator(guild, limit=L) (lines 646-656)
MemberIterator(L) ==
    [given |-> L, limit |-> L, after |-> 0, members |-> 0,
     yielded |-> 0, fetches |-> 0, exhausted |-> FALSE]

\* _get_retrieve (lines 667-674)
get_retrieve(l) == IF l > PageSize THEN PageSize ELSE l

Min(a, b) == IF a < b THEN a ELSE b

\* http.get_members(guild.id, retrieve, after): the next members after
\* `after`, at most `retrieve` of them
get_members(size, retrieve, after) == Min(retrieve, size - after)

\* fill_members (lines 676-691)
fill_members(it, size) ==
    LET retrieve == get_retrieve(it.limit)
        fetched == get_members(size, retrieve, it.after)
    IN IF retrieve <= 0 THEN it
       ELSE IF fetched = 0 THEN [it EXCEPT !.fetches = @ + 1]
       ELSE [it EXCEPT !.fetches = @ + 1,
                       !.limit = IF fetched < PageSize THEN 0 ELSE @,
                       !.after = @ + fetched,
                       !.members = @ + fetched]

InitIterator ==
    /\ guild_members \in {0, 500, PageSize, MaxMembers}
    /\ member_iterator \in {MemberIterator(L) : L \in {1, 999, PageSize, 1500}}

IterIdle ==
    /\ guild_members = 0
    /\ member_iterator = MemberIterator(1)

\* next() (lines 658-665), until it raises NoMoreItems
IteratorNext ==
    /\ ~member_iterator.exhausted
    /\ LET filled == IF member_iterator.members = 0
                     THEN fill_members(member_iterator, guild_members)
                     ELSE member_iterator
       IN member_iterator' =
            IF filled.members > 0
            THEN [filled EXCEPT !.members = @ - 1, !.yielded = @ + 1]
            ELSE [filled EXCEPT !.exhausted = TRUE]
    /\ UNCHANGED guild_members

\* ------------------------------------------------- parent and child links
VARIABLES
    link_names,        \* __application_command_name__ of each command,
                       \* "None" while the class is not defined
    link_parent,       \* __application_command_parent__ of each command
    link_subcommands   \* __application_command_subcommands__ of each command:
                       \* the command stored under each name, or "None"

linkVars == <<link_names, link_parent, link_subcommands>>

\* the slash command classes of a program and the names they are given
LinkCommands == {"c1", "c2", "c3"}
LinkNames == {"get", "edit"}

\* cls.__application_command_subcommands__ = {} (line 1321)
EmptyMap == [n \in LinkNames |-> "None"]

LinkDefined == {c \in LinkCommands : link_names[c] # "None"}

\* class C(SlashCommand, name=n, parent=p): __init_subclass__ sets the name
\* and the parent (lines 1309, 1312), the empty map (line 1321) and stores
\* the class in the parent's map under its name (lines 1323-1325)
init_subclass_parent(c, n, p) ==
    /\ link_names' = [link_names EXCEPT ![c] = n]
    /\ link_parent' = [link_parent EXCEPT ![c] = p]
    /\ link_subcommands' =
         IF p # "None"
         THEN [link_subcommands EXCEPT ![c] = EmptyMap, ![p][n] = c]
         ELSE [link_subcommands EXCEPT ![c] = EmptyMap]

\* p.add_subcommand(c) (lines 1660-1672): only the map of p is written
slash_add_subcommand(p, c) ==
    /\ link_subcommands' = [link_subcommands EXCEPT ![p][link_names[c]] = c]
    /\ UNCHANGED <<link_names, link_parent>>

\* c.set_parent(q) (lines 1674-1686): the map of q and the parent of c are
\* written, the map of the previous parent is not
set_parent(c, q) ==
    /\ link_subcommands' = [link_subcommands EXCEPT ![q][link_names[c]] = c]
    /\ link_parent' = [link_parent EXCEPT ![c] = q]
    /\ UNCHANGED link_names

InitLinks ==
    /\ link_names = [c \in LinkCommands |-> "None"]
    /\ link_parent = [c \in LinkCommands |-> "None"]
    /\ link_subcommands = [c \in LinkCommands |-> EmptyMap]

LinkIdle ==
    /\ link_names = [c \in LinkCommands |-> "None"]
    /\ link_parent = [c \in LinkCommands |-> "None"]
    /\ link_subcommands = [c \in LinkCommands |-> EmptyMap]

DefineWithParent ==
    \E c \in LinkCommands \ LinkDefined, n \in LinkNames,
       p \in LinkDefined \cup {"None"} :
        init_subclass_parent(c, n, p)

AddSubcommand ==
    \E p, c \in LinkDefined : p # c /\ slash_add_subcommand(p, c)

SetParent ==
    \E c, q \in LinkDefined : c # q /\ set_parent(c, q)

LinkNext == DefineWithParent \/ AddSubcommand \/ SetParent

vars == <<pipeVars, matchVars, dictVars, defineVars, resolveVars, autoVars, taskVars, cogVars, optionVars, eventVars, modalVars, iterVars, linkVars>>

Init ==
    /\ InitPipeline \/ InitInjection
    /\ MatchIdle /\ DictIdle /\ DefineIdle /\ ResolveIdle /\ AutoIdle /\ TasksIdle /\ CogIdle /\ OptionIdle /\ EventIdle /\ ModalIdle /\ IterIdle /\ LinkIdle

Next == PipelineNext /\ UNCHANGED <<matchVars, dictVars, defineVars, resolveVars, autoVars, taskVars, cogVars, optionVars, eventVars, modalVars, iterVars, linkVars>>

Spec == Init /\ [][Next]_vars

InitM == PipelineIdle /\ InitMatch /\ DictIdle /\ DefineIdle /\ ResolveIdle /\ AutoIdle /\ TasksIdle /\ CogIdle /\ OptionIdle /\ EventIdle /\ ModalIdle /\ IterIdle /\ LinkIdle

NextM == GetUsedCommand /\ UNCHANGED <<pipeVars, dictVars, defineVars, resolveVars, autoVars, taskVars, cogVars, optionVars, eventVars, modalVars, iterVars, linkVars>>

SpecMatch == InitM /\ [][NextM]_vars

InitD == PipelineIdle /\ MatchIdle /\ InitDict /\ DefineIdle /\ ResolveIdle /\ AutoIdle /\ TasksIdle /\ CogIdle /\ OptionIdle /\ EventIdle /\ ModalIdle /\ IterIdle /\ LinkIdle

NextD == DictNext /\ UNCHANGED <<pipeVars, matchVars, defineVars, resolveVars, autoVars, taskVars, cogVars, optionVars, eventVars, modalVars, iterVars, linkVars>>

SpecDict == InitD /\ [][NextD]_vars

InitS == PipelineIdle /\ MatchIdle /\ InitSerialize /\ DefineIdle /\ ResolveIdle /\ AutoIdle /\ TasksIdle /\ CogIdle /\ OptionIdle /\ EventIdle /\ ModalIdle /\ IterIdle /\ LinkIdle

NextS == SerializeNext /\ UNCHANGED <<pipeVars, matchVars, defineVars, resolveVars, autoVars, taskVars, cogVars, optionVars, eventVars, modalVars, iterVars, linkVars>>

SpecSerialize == InitS /\ [][NextS]_vars

InitC == PipelineIdle /\ MatchIdle /\ DictIdle /\ InitDefine /\ ResolveIdle /\ AutoIdle /\ TasksIdle /\ CogIdle /\ OptionIdle /\ EventIdle /\ ModalIdle /\ IterIdle /\ LinkIdle

NextC == DefineClass /\ UNCHANGED <<pipeVars, matchVars, dictVars, resolveVars, autoVars, taskVars, cogVars, optionVars, eventVars, modalVars, iterVars, linkVars>>

SpecDefine == InitC /\ [][NextC]_vars

InitR == PipelineIdle /\ MatchIdle /\ DictIdle /\ DefineIdle /\ InitResolve /\ AutoIdle /\ TasksIdle /\ CogIdle /\ OptionIdle /\ EventIdle /\ ModalIdle /\ IterIdle /\ LinkIdle

NextR == Construct /\ UNCHANGED <<pipeVars, matchVars, dictVars, defineVars, autoVars, taskVars, cogVars, optionVars, eventVars, modalVars, iterVars, linkVars>>

SpecResolve == InitR /\ [][NextR]_vars

InitA ==
    /\ PipelineIdle /\ MatchIdle /\ DictIdle /\ DefineIdle /\ ResolveIdle
    /\ InitAuto /\ TasksIdle /\ CogIdle /\ OptionIdle /\ EventIdle /\ ModalIdle /\ IterIdle /\ LinkIdle

NextA ==
    /\ DefineAutocompleteResult
    /\ UNCHANGED <<pipeVars, matchVars, dictVars, defineVars, resolveVars, taskVars, cogVars, optionVars, eventVars, modalVars, iterVars, linkVars>>

SpecAutocomplete == InitA /\ [][NextA]_vars

InitT ==
    /\ PipelineIdle /\ MatchIdle /\ DictIdle /\ DefineIdle /\ ResolveIdle /\ AutoIdle
    /\ InitTasks /\ CogIdle /\ OptionIdle /\ EventIdle /\ ModalIdle /\ IterIdle /\ LinkIdle

NextT ==
    /\ TasksNext
    /\ UNCHANGED <<pipeVars, matchVars, dictVars, defineVars, resolveVars, autoVars, cogVars, optionVars, eventVars, modalVars, iterVars, linkVars>>

SpecTasks == InitT /\ [][NextT]_vars

InitG ==
    /\ PipelineIdle /\ MatchIdle /\ DictIdle /\ DefineIdle /\ ResolveIdle /\ AutoIdle /\ TasksIdle
    /\ InitCogs /\ OptionIdle /\ EventIdle /\ ModalIdle /\ IterIdle /\ LinkIdle

NextG ==
    /\ CogNext
    /\ UNCHANGED <<pipeVars, matchVars, dictVars, defineVars, resolveVars, autoVars, taskVars, optionVars, eventVars, modalVars, iterVars, linkVars>>

SpecCogs == InitG /\ [][NextG]_vars

InitK ==
    /\ PipelineIdle /\ MatchIdle /\ DictIdle /\ DefineIdle /\ ResolveIdle /\ AutoIdle /\ TasksIdle
    /\ InitKeys /\ OptionIdle /\ EventIdle /\ ModalIdle /\ IterIdle /\ LinkIdle

NextK ==
    /\ KeysNext
    /\ UNCHANGED <<pipeVars, matchVars, dictVars, defineVars, resolveVars, autoVars, taskVars, optionVars, eventVars, modalVars, iterVars, linkVars>>

SpecKeys == InitK /\ [][NextK]_vars

InitO ==
    /\ PipelineIdle /\ MatchIdle /\ DictIdle /\ DefineIdle /\ ResolveIdle /\ AutoIdle /\ TasksIdle /\ CogIdle
    /\ InitOption /\ EventIdle /\ ModalIdle /\ IterIdle /\ LinkIdle

NextO ==
    /\ OptionToDictCall
    /\ UNCHANGED <<pipeVars, matchVars, dictVars, defineVars, resolveVars, autoVars, taskVars, cogVars, eventVars, modalVars, iterVars, linkVars>>

SpecOption == InitO /\ [][NextO]_vars

InitE ==
    /\ PipelineIdle /\ MatchIdle /\ DictIdle /\ DefineIdle /\ ResolveIdle /\ AutoIdle /\ TasksIdle /\ CogIdle /\ OptionIdle
    /\ InitEdit /\ ModalIdle /\ IterIdle /\ LinkIdle

NextE ==
    /\ Edit
    /\ UNCHANGED <<pipeVars, matchVars, dictVars, defineVars, resolveVars, autoVars, taskVars, cogVars, optionVars, modalVars, iterVars, linkVars>>

SpecEdit == InitE /\ [][NextE]_vars

InitMo ==
    /\ PipelineIdle /\ MatchIdle /\ DictIdle /\ DefineIdle /\ ResolveIdle /\ AutoIdle /\ TasksIdle /\ CogIdle /\ OptionIdle /\ EventIdle
    /\ InitModal /\ IterIdle /\ LinkIdle

NextMo ==
    /\ ModalNext
    /\ UNCHANGED <<pipeVars, matchVars, dictVars, defineVars, resolveVars, autoVars, taskVars, cogVars, optionVars, eventVars, iterVars, linkVars>>

SpecModal == InitMo /\ [][NextMo]_vars

InitI ==
    /\ PipelineIdle /\ MatchIdle /\ DictIdle /\ DefineIdle /\ ResolveIdle /\ AutoIdle /\ TasksIdle /\ CogIdle /\ OptionIdle /\ EventIdle /\ ModalIdle
    /\ InitIterator /\ LinkIdle

NextI ==
    /\ IteratorNext
    /\ UNCHANGED <<pipeVars, matchVars, dictVars, defineVars, resolveVars, autoVars, taskVars, cogVars, optionVars, eventVars, modalVars, linkVars>>

SpecIterator == InitI /\ [][NextI]_vars

InitL ==
    /\ PipelineIdle /\ MatchIdle /\ DictIdle /\ DefineIdle /\ ResolveIdle /\ AutoIdle /\ TasksIdle /\ CogIdle /\ OptionIdle /\ EventIdle /\ ModalIdle /\ IterIdle
    /\ InitLinks

NextL ==
    /\ LinkNext
    /\ UNCHANGED <<pipeVars, matchVars, dictVars, defineVars, resolveVars, autoVars, taskVars, cogVars, optionVars, eventVars, modalVars, iterVars>>

SpecLinks == InitL /\ [][NextL]_vars

\* ------------------------------------------------------------------ claims
CheckEvents == {"global_check", "cog_check", "command_check"}
TryEvents == CheckEvents \cup {"default", "callback", "defer"}

\* C1: as soon as one check returns a falsy value the pipeline stops: the
\* falsy check is the last user function the task invokes (no later global
\* check, cog check, command check, callback, defer or handler) and the task
\* has returned.
C1_ShortCircuit ==
    \A p \in DOMAIN log :
        (log[p].ev \in CheckEvents /\ log[p].res = "false")
            => (p = Len(log) /\ pc = "done")

\* the first of several client-level checks was falsy, for a command in a cog
\* that overrides the cog check and that overrides command_check itself
C1_Witness ==
    /\ pc = "done"
    /\ checks >= 2
    /\ cog.present /\ cog.check
    /\ chain[1].command_check
    /\ log = <<Ev("global_check", 1, "false")>>

HandlerRank(ev) ==
    IF ev = "cog_error" THEN 1 ELSE IF ev = "dispatch" THEN 2
    ELSE IF ev = "on_error" THEN 3 ELSE 0

\* C2: the error handlers run in the order cog_application_command_error,
\* then the 'application_command_error' dispatch, then the command-chain
\* on_error: no handler later in this order is invoked before an earlier one.
C2_HandlerOrder ==
    \A p, q \in DOMAIN log :
        (p < q /\ HandlerRank(log[p].ev) > 0 /\ HandlerRank(log[q].ev) > 0)
            => HandlerRank(log[p].ev) < HandlerRank(log[q].ev)

\* the callback of a command in a cog raised and all three handlers ran
C2_Witness ==
    /\ cog.present
    /\ err = "callback"
    /\ \E p, q, r \in DOMAIN log :
         /\ p < q /\ q < r
         /\ log[p].ev = "cog_error"
         /\ log[q].ev = "dispatch"
         /\ log[r].ev = "on_error"

\* C3: every exception raised by default injection, a check, the callback or
\* the auto-defer has been dispatched as 'application_command_error' with that
\* exception by the time the task ends, also when the cog handler raised.
C3_AlwaysDispatched ==
    pc = "done" =>
        \A p \in DOMAIN log :
            (log[p].ev \in TryEvents /\ log[p].res = "raise")
                => \E q \in DOMAIN log :
                     q > p /\ log[q] = Ev("dispatch", 0, log[p].ev)

\* the cog-level error handler itself raised while handling the exception
C3_Witness ==
    /\ pc = "done"
    /\ escaped
    /\ \E p \in DOMAIN log : log[p] = Ev("cog_error", 0, "raise")
    /\ \E p \in DOMAIN log : log[p].ev = "dispatch"

\* C4: an option that is required, or for which the payload supplied a value
\* (0, False and '' included), always holds exactly what the payload supplied:
\* default injection never writes to it.
C4_DefaultOnlyIfUnset ==
    \A i \in DOMAIN options :
        (options[i].required = "True" \/ supplied[i] # NoneV)
            => GetAttr(resolved, options[i].name) = supplied[i]

\* after injection: an optional option with default 5 was given 0, and a
\* required option with default 5 was given nothing
C4_Witness ==
    /\ isSlash
    /\ pc = "global"
    /\ \E i, j \in DOMAIN options :
         /\ options[i].required = "False" /\ options[i].default = Int5
         /\ supplied[i] = Int0
         /\ options[j].required = "True" /\ options[j].default = Int5
         /\ supplied[j] = NoneV

InjectionOver == isSlash /\ pc # "inject" /\ err # "default"

\* C5: when default injection of a Slash command is over, every optional
\* option the payload did not supply and that has a default holds it: a
\* plain value as is, the result of a callable (awaited if asynchronous); the
\* command (required string, optional integer default 5) invoked with the
\* string only holds {string_opt: given, int_opt: 5}.
C5_DefaultsInjected ==
    InjectionOver =>
        /\ \A i \in DOMAIN options :
             (options[i].required # "True" /\ supplied[i] = NoneV)
                 => /\ options[i].default.k = "int"
                        => GetAttr(resolved, options[i].name) = options[i].default
                    /\ options[i].default = Fn
                        => GetAttr(resolved, options[i].name)
                              = [k |-> "obj", x |-> "computed"]
        /\ (/\ Len(options) = 2
            /\ options[1].required = "True"
            /\ options[2].required = "False" /\ options[2].default = Int5
            /\ supplied = <<StrGiven, NoneV>>)
               => resolved = [n \in {"string_opt", "int_opt"} |->
                                 IF n = "string_opt" THEN StrGiven ELSE Int5]

\* the end-to-end example, before any check has run
C5_Witness ==
    /\ isSlash
    /\ pc = "global"
    /\ log = <<>>
    /\ supplied = <<StrGiven, NoneV>>
    /\ resolved = [n \in {"string_opt", "int_opt"} |->
                      IF n = "string_opt" THEN StrGiven ELSE Int5]

NamesGroupedSubcommand(g, n) ==
    /\ payload.hasOptions
    /\ payload.options = <<Entry(2, g, TRUE, <<Leaf(1, n)>>)>>
    /\ \E i \in DOMAIN command.subcommands :
         /\ command.subcommands[i].name = g
         /\ command.subcommands[i].group
         /\ \E j \in DOMAIN command.subcommands[i].subcommands :
              command.subcommands[i].subcommands[j].name = n

ScopeIsOnlyMismatch ==
    /\ ~command.global_command
    /\ command.has_guild_ids
    /\ guild_id # GuildNone
    /\ guild_id \notin command.guild_ids
    /\ payload.name = command.name
    /\ payload.type = command.type

\* C7: for a command that is not global and has guild_ids G, a payload whose
\* name and type match and whose guild id is non-null and not in G gets no
\* match (None), whatever the payload's options are.
C7_ScopeRejects ==
    (ScopeIsOnlyMismatch /\ used # Pending) => used = NoMatch

\* the scope is the only mismatch and the payload names a grouped subcommand
\* that the command does have
C7_Witness ==
    /\ ScopeIsOnlyMismatch
    /\ used = NoMatch
    /\ NamesGroupedSubcommand("user", "get")

\* C8: for a command with group G holding subcommand S, the payload
\* [{type 2, name G, options: [{type 1, name S}]}] resolves to the definition
\* of S under G, without raising.
C8_GrandchildResolved ==
    \A g, n \in CommandNames :
        (/\ ~Rejected(command, payload, guild_id)
         /\ NamesGroupedSubcommand(g, n)
         /\ used # Pending)
            => used = Def("def", <<g, n>>)

IsRequiredEntry(o) == o.required = "True"
IsOptionalEntry(o) == o.required # "True"

\* the name, type and 'required' of serialized options
Brief(entries) ==
    [i \in DOMAIN entries |->
        [name |-> entries[i].name, type |-> entries[i].type,
         required |-> entries[i].required]]

\* the entries in declaration order: own options, then one per subcommand
DeclaredEntries ==
    [i \in DOMAIN own |->
        [name |-> own[i].name, type |-> 3,
         required |-> IF own[i].required = MISSING THEN "absent"
                      ELSE own[i].required]]
    \o [i \in DOMAIN children |->
        [name |-> children[i].name,
         type |-> IF children[i].group THEN 2 ELSE 1,
         required |-> "absent"]]

\* C9: in to_dict()['options'] no required option comes after an option that
\* is not required, and options of equal required-ness keep their declaration
\* order (own options before the synthesized subcommand entries).
C9_RequiredFirst ==
    sent.called =>
        /\ \A p, q \in DOMAIN sent.options :
             p < q => ~(IsOptionalEntry(sent.options[p])
                        /\ IsRequiredEntry(sent.options[q]))
        /\ SelectSeq(Brief(sent.options), IsRequiredEntry)
             = SelectSeq(DeclaredEntries, IsRequiredEntry)
        /\ SelectSeq(Brief(sent.options), IsOptionalEntry)
             = SelectSeq(DeclaredEntries, IsOptionalEntry)

\* to_dict() moved two required options, in their order, in front of an
\* optional one declared first, and the subcommand entry comes last
C9_Witness ==
    /\ sent.called
    /\ Len(own) = 3 /\ Len(children) >= 1
    /\ own[1].required = "False"
    /\ own[2].required = "True"
    /\ own[3].required = "True"
    /\ sent.options[1].name = own[2].name
    /\ sent.options[2].name = own[3].name
    /\ sent.options[3].name = own[1].name
    /\ sent.options[4].type \in {1, 2}

\* C10 as stated: a union annotation of more than two arms makes class
\* creation raise.
C10_ManyArmsRaise ==
    (harvested.done /\ annotation.origin = "Union" /\ Len(annotation.args) > 2)
        => harvested.raised

PlainTypes(args) == \A i \in DOMAIN args : args[i].t # "Literal"

LastNonNull(args) ==
    LET keep == {i \in DOMAIN args : args[i] # NoneType}
    IN args[CHOOSE i \in keep : \A j \in keep : j <= i]

\* C10 amended: for a union of more than two plain types, class creation
\* raises exactly when the last arm other than None is not a valid option
\* type; otherwise the option is not required when None is an arm, takes the
\* wire type of that last arm unless a type was given explicitly, and its
\* channel_types hold the channel type of every channel arm.
C10_ManyArmsResolveLast ==
    (/\ harvested.done
     /\ annotation.origin = "Union"
     /\ Len(annotation.args) > 2
     /\ PlainTypes(annotation.args))
        => LET last == LastNonNull(annotation.args)
           IN /\ harvested.raised <=> OPTION_TYPE_MAPPING(last.t) = 0
              /\ ~harvested.raised =>
                   /\ (\E i \in DOMAIN annotation.args : annotation.args[i] = NoneType)
                         => harvested.required = "False"
                   /\ attr.type = 0 => harvested.type = OPTION_TYPE_MAPPING(last.t)
                   /\ \A i \in DOMAIN annotation.args :
                        CHANNEL_TYPE_MAPPING(annotation.args[i].t)
                            \subseteq harvested.channel_types

\* Union[TextChannel, VoiceChannel, None] made a channel option that is not
\* required and accepts text and voice channels
C10_Witness ==
    /\ harvested.done /\ ~harvested.raised
    /\ annotation = [origin |-> "Union",
                     args |-> <<PlainArm("TextChannel"), PlainArm("VoiceChannel"),
                                NoneType>>]
    /\ attr = [type |-> 0, required |-> "True"]
    /\ harvested.type = 7
    /\ harvested.required = "False"
    /\ harvested.channel_types = {"text", "voice"}

OptionalOf(ann) ==
    /\ ann.origin = "Union"
    /\ Len(ann.args) = 2
    /\ \E i \in DOMAIN ann.args : ann.args[i] = NoneType

\* the wire type of an arm; a Literal arm has the type of its values
WireType(arm) ==
    IF arm.t = "Literal" THEN OPTION_TYPE_MAPPING(arm.lit[1].t)
    ELSE OPTION_TYPE_MAPPING(arm.t)

\* C11 as stated: an option annotated Optional[T] is harvested with required
\* False and with the wire type of T, whatever was passed to
\* application_command_option.
C11_OptionalTypeOfArm ==
    (harvested.done /\ ~harvested.raised /\ OptionalOf(annotation))
        => /\ harvested.required = "False"
           /\ harvested.type = WireType(LastNonNull(annotation.args))

\* C11 amended: an option annotated Optional[T] whose class is created is
\* harvested with required False whatever required value was passed; its type
\* is the wire type of T when no type was passed to
\* application_command_option, and the type that was passed otherwise.
C11_OptionalNotRequired ==
    (harvested.done /\ ~harvested.raised /\ OptionalOf(annotation))
        => /\ harvested.required = "False"
           /\ harvested.type = IF attr.type = 0
                               THEN WireType(LastNonNull(annotation.args))
                               ELSE attr.type

\* Optional[int] with required=True passed and no explicit type
C11_Witness ==
    /\ harvested.done /\ ~harvested.raised
    /\ annotation = [origin |-> "Union", args |-> <<PlainArm("int"), NoneType>>]
    /\ attr = [type |-> 0, required |-> "True"]
    /\ harvested.required = "False"
    /\ harvested.type = 4

\* C12: when an option of the class body has neither an explicit type nor an
\* annotation, the class statement raises: no class is bound and the parent's
\* subcommand map is left as it was.
C12_UntypedOptionRaises ==
    (cls.done /\ attr.type = 0 /\ annotation.origin = "absent")
        => /\ cls.raised
           /\ ~cls.bound
           /\ parent_subcommands = decl.parent.subcommands

\* a slash subcommand of a slash parent whose only fault is the untyped option
C12_Witness ==
    /\ cls.done /\ cls.raised
    /\ harvested.done /\ harvested.raised
    /\ attr.type = 0 /\ annotation.origin = "absent"
    /\ decl.parent = ParentClass("Permissions", "slash", <<Child("get", "Old")>>)
    /\ parent_subcommands = <<Child("get", "Old")>>

\* the kind of the command being declared (lines 1259-1260)
KindOf(d) ==
    IF d.type = MISSING THEN traverse_mro_for_attr(d.mro, Len(d.mro)) ELSE d.type

\* the name the class statement gives the command (lines 1262-1266)
NameOf(d) ==
    LET given == IF d.name = "None" THEN d.class ELSE d.name
    IN IF KindOf(d) = "slash" THEN Lower(given) ELSE given

\* C19: a class statement with parent=P raises unless the new command and P
\* are both slash commands, and a statement that raises leaves P's subcommand
\* map as it was; a statement that succeeds stores the class in P's map under
\* its lowercased name and makes P the parent of the class.
C19_ParentNeedsSlash ==
    (cls.done /\ decl.parent # NoParent)
        => /\ (KindOf(decl) # "slash" \/ decl.parent.type # "slash") => cls.raised
           /\ cls.raised => parent_subcommands = decl.parent.subcommands
           /\ ~cls.raised =>
                /\ Child(NameOf(decl), decl.class) \in
                      {parent_subcommands[i] : i \in DOMAIN parent_subcommands}
                /\ NameOf(decl) = Lower(NameOf(decl))
                /\ cls.parent = decl.parent.name

\* class Role(SlashCommand, name='Get', parent=Permissions) is stored under
\* 'get'
C19_Witness ==
    /\ cls.bound
    /\ decl.name = "Get"
    /\ decl.parent = ParentClass("Permissions", "slash", <<>>)
    /\ parent_subcommands = <<Child("get", "Role")>>
    /\ cls.parent = "Permissions"

\* C20: no command of the message or user kind is ever a group: a class
\* statement with group=True is rejected unless the command is a slash command.
C20_GroupOnlySlash ==
    cls.bound => (cls.group => cls.type = "slash")

\* x.<name>: the value stored under the name, None for an unknown name
StoredUnder(map, key) ==
    IF HasKey(map, key)
    THEN map[CHOOSE i \in DOMAIN map : map[i].key = key].value
    ELSE NoneV

\* C13: every construction from the same payload, guild id, resolved data and
\* cache has the same outcome and the same content, and leaves the payload's
\* option list, nested lists included, as it was.
C13_SameContent ==
    \A i, j \in DOMAIN built :
        /\ built[i].raised = built[j].raised
        /\ built[i].map = built[j].map
        /\ built[i].before = built[j].before
        /\ data = built[i].before

\* two constructions from a payload whose user option is nested in a
\* subcommand entry
C13_Witness ==
    /\ Len(built) = 2
    /\ data = [none |-> FALSE,
               options |-> <<Marker(1, "get", <<Value(6, "target")>>)>>]
    /\ ~built[2].raised
    /\ StoredUnder(built[2].map, "target") # NoneV

Only(type) == data = [none |-> FALSE, options |-> <<Value(type, "target")>>]

FoundNowhere(c) ==
    /\ ~c.state.member /\ ~c.state.user /\ ~c.state.role /\ ~c.state.channel
    /\ ~c.resolved.users /\ ~c.resolved.members /\ ~c.resolved.roles
    /\ ~c.resolved.attachments

\* C15: for a user, channel, role, mentionable or attachment option the
\* constructor never raises, whatever is missing from the cache and from the
\* resolved data, and an entity found in neither is stored as a reference
\* made from the raw id alone.
C15_NeverRaises ==
    \A i \in DOMAIN built :
        /\ ~built[i].raised
        /\ \A t \in EntityTypes :
             (Only(t) /\ FoundNowhere(ctx))
                 => StoredUnder(built[i].map, "target").x = "id"

\* C16: in a guild, a mentionable id that is no cached member and has no
\* resolved user or member data, but is a role of the cached guild or of the
\* resolved roles, resolves to that role.
C16_MentionFallsBackToRole ==
    \A i \in DOMAIN built :
        (/\ Only(9)
         /\ ctx.guild_id # GuildNone
         /\ ~(get_guild(ctx) /\ get_member(ctx))
         /\ ~ctx.resolved.users /\ ~ctx.resolved.members
         /\ (get_guild(ctx) /\ get_role(ctx)) \/ ctx.resolved.roles)
            => /\ ~built[i].raised
               /\ StoredUnder(built[i].map, "target").k = "Role"

\* the cache holds the user: as a member of the guild, else as a global user
CacheHolds(c) == (get_guild(c) /\ get_member(c)) \/ get_user(c)

\* C17: a user option resolves to the cached object whenever the cache holds
\* it, to the object made from the resolved snapshot only on a cache miss,
\* and to the id-only reference only when both are missing, in a guild and in
\* a DM alike.
C17_CacheWins ==
    \A i \in DOMAIN built :
        Only(6) =>
            LET v == StoredUnder(built[i].map, "target")
            IN /\ CacheHolds(ctx) => v.x = "cache"
               /\ (~CacheHolds(ctx) /\ ctx.resolved.users) => v.x = "resolved"
               /\ (~CacheHolds(ctx) /\ ~ctx.resolved.users) => v = Entity("Object", "id")

OptionNames18 == {"target", "text", "get", "None"}

\* C18: `y in x` is true exactly for the options that were provided (hold a
\* value other than None), so as many names are contained as len(x) counts.
C18_ContainsIffProvided ==
    \A i \in DOMAIN built :
        ~built[i].raised =>
            /\ \A y \in OptionNames18 :
                 contains(built[i].map, y) <=> StoredUnder(built[i].map, y) # NoneV
            /\ Cardinality({y \in OptionNames18 : contains(built[i].map, y)})
                   = len(built[i].map)

ValidResults(results) ==
    \A i \in DOMAIN results : IsChoiceValue(results[i].value)

\* C14: a handler that produces strings, numbers and
\* ApplicationCommandOptionChoice objects makes _define_autocomplete_result
\* send exactly one response, of type 8, whose choices are the handler's
\* results in order: {name: v, value: v} for a bare v and
\* {name: choice.name, value: choice.value} for a choice object.
C14_AutocompleteResponse ==
    (/\ completion.done
     /\ autocomplete.kind # "None"
     /\ ~autocomplete.raises
     /\ ValidResults(autocomplete.results))
        => /\ Len(responses) = 1
           /\ responses[1].type = 8
           /\ Len(responses[1].choices) = Len(autocomplete.results)
           /\ \A i \in DOMAIN autocomplete.results :
                LET produced == autocomplete.results[i]
                    sent_choice == responses[1].choices[i]
                IN /\ sent_choice.value = produced.value
                   /\ sent_choice.name = IF produced.choice
                                         THEN Str(produced.name)
                                         ELSE produced.value

\* a choice object followed by a bare string, from an async generator
C14_Witness ==
    /\ completion.done
    /\ autocomplete.kind = "asyncgen"
    /\ autocomplete.results =
           <<ApplicationCommandOptionChoice("Red apple", Str("apple")),
             Bare(Str("Apricot"))>>
    /\ responses =
           <<[type |-> 8,
              choices |-> <<[name |-> Str("Red apple"), value |-> Str("apple")],
                            [name |-> Str("Apricot"), value |-> Str("Apricot")]>>]>>

\* C21: a class declared without a type takes the kind of its nearest
\* ancestor that has one: a class deriving from a class that derives from
\* SlashCommand with type=user is a user command.
C21_NearestKind ==
    (cls.bound /\ decl.type = MISSING) => cls.type = decl.mro[2]

LiteralValues == annotation.args[1].lit

SameScalarType(values) ==
    /\ \A i \in DOMAIN values : values[i].t \in {"str", "int", "float"}
    /\ \A i, j \in DOMAIN values : values[i].t = values[j].t

\* the literal values have one scalar type and it is the declared type of the
\* option, if a type was declared
ConsistentLiteral(option, values) ==
    /\ SameScalarType(values)
    /\ option.type = 0 \/ option.type = OPTION_TYPE_MAPPING(values[1].t)

\* C22: an option annotated with a Literal whose values share one scalar type
\* that agrees with the declared type of the option (or no type is declared)
\* is created with one choice per value, in order, named str(v) with value v;
\* with values of different types, or of a type other than the declared one,
\* the class statement raises.
C22_LiteralChoices ==
    (harvested.done /\ annotation.origin = "Literal")
        => IF ConsistentLiteral(attr, LiteralValues)
           THEN /\ ~harvested.raised
                /\ harvested.choices =
                      [i \in DOMAIN LiteralValues |->
                          [name |-> LiteralValues[i].v, value |-> LiteralValues[i]]]
           ELSE harvested.raised

EventsOf(kind) == SelectSeq(log, LAMBDA e : e.ev = kind)

ChainStageOver == pc \in {"callback", "defer"}

\* C23: at most one command_check of the chain runs in an invocation, and it
\* is the overridden check nearest to the command (its own first, then its
\* parent's, and so on); once the chain stage is over it has run exactly once
\* if any command of the chain overrides command_check, and not at all
\* otherwise.
C23_OneChainCheck ==
    LET ran == EventsOf("command_check")
        overriding == {i \in DOMAIN chain : chain[i].command_check}
    IN /\ Len(ran) <= 1
       /\ \A p \in DOMAIN ran :
            /\ ran[p].n \in overriding
            /\ \A i \in overriding : ran[p].n <= i
       /\ ChainStageOver => (Len(ran) = 1 <=> overriding # {})

\* the command does not override command_check, its parent does, and the
\* parent's check let the invocation through
C23_Witness ==
    /\ pc = "callback"
    /\ Len(chain) = 2
    /\ ~chain[1].command_check /\ chain[2].command_check
    /\ EventsOf("command_check") = <<Ev("command_check", 2, "true")>>

CallbackReturned ==
    \E p \in DOMAIN log : log[p].ev = "callback" /\ log[p].res # "raise"

Started(t) == invocation[t].pc # "waiting"

\* C25: interleaved invocations of one command never see each other's
\* values: in the resolved options of an invocation every option holds what
\* that invocation's payload supplied, and stays None until that invocation
\* itself has gone through it; two invocations never share their options
\* object, and the declared options of the command stay what they were.
C25_InvocationsIsolated ==
    \A t \in Tasks :
        Started(t) =>
            /\ invocation[t].declared = cmd_options
            /\ \A u \in Tasks \ {t} :
                 Started(u) => invocation[u].ref # invocation[t].ref
            /\ \A i \in DOMAIN cmd_options :
                 LET held == GetAttr(heap[invocation[t].ref], cmd_options[i].name)
                     given == invocation[t].supplied[i]
                 IN /\ given # NoneV => held = given
                    /\ (given = NoneV /\ invocation[t].idx <= i) => held = NoneV

\* one invocation has injected the default 5 of the first option while the
\* other, which was given 0 for it, is still before it
C25_Witness ==
    /\ cmd_options[1].default = Int5
    /\ invocation[1].pc = "inject" /\ invocation[1].idx = 2
    /\ invocation[1].supplied[1] = NoneV
    /\ heap[invocation[1].ref]["string_opt"] = Int5
    /\ invocation[2].pc = "inject" /\ invocation[2].idx = 1
    /\ heap[invocation[2].ref]["string_opt"] = Int0

\* the entries of a payload list that carry no nested list, at any depth
RECURSIVE LeafEntries(_)
LeafEntries(list) ==
    IF list = <<>> THEN {}
    ELSE (IF Head(list).hasOptions THEN LeafEntries(Head(list).options)
          ELSE {Head(list)})
         \cup LeafEntries(Tail(list))

\* the leaf entries that supply a value: not focused, with a value
SuppliedEntries ==
    IF data.none THEN {}
    ELSE {e \in LeafEntries(data.options) : ~e.focused /\ e.value # NoneV}

OptionalNames ==
    {declared[i].name : i \in {j \in DOMAIN declared :
                                  declared[j].required # "True"}}

\* C26: a constructed ApplicationCommandOptions holds None for every declared
\* option that is not required and was not supplied, holds a value under the
\* name of every supplied leaf entry, holds nothing for focused entries and
\* for subcommand and group markers, and its len() is the number of entries
\* with a value.
C26_ContentAfterConstruction ==
    \A i \in DOMAIN built :
        ~built[i].raised =>
            LET map == built[i].map
                keys == {map[k].key : k \in DOMAIN map}
                suppliedNames == {e.name : e \in SuppliedEntries}
            IN /\ \A n \in OptionalNames \ suppliedNames :
                    n \in keys /\ StoredUnder(map, n) = NoneV
               /\ \A e \in SuppliedEntries :
                    /\ e.name \in keys
                    /\ StoredUnder(map, e.name) # NoneV
                    /\ e.type = 3 => StoredUnder(map, e.name) = e.value
               /\ keys = OptionalNames \cup suppliedNames
               /\ len(map) = Cardinality(suppliedNames)

\* a role option nested under a group and a subcommand, and an optional
\* option the payload does not carry
C26_Witness ==
    /\ built # <<>>
    /\ data = [none |-> FALSE,
               options |-> <<Marker(2, "user",
                                <<Marker(1, "get", <<Value(8, "target")>>)>>)>>]
    /\ declared[2] = [name |-> "text", required |-> "False"]
    /\ StoredUnder(built[1].map, "target").k \in {"Role", "Object"}
    /\ built[1].map[1] = Pair("text", NoneV)
    /\ len(built[1].map) = 1

\* the dict expected for a declared option, which nests nothing
PlainEntry(option) ==
    [name |-> option.name, type |-> option.type,
     description |-> option.description,
     required |-> IF option.required = MISSING THEN "absent" ELSE option.required,
     options |-> <<>>]

PlainEntries(opts) == [i \in DOMAIN opts |-> PlainEntry(opts[i])]

\* the dict expected for a subcommand, given what it nests
CommandEntry(cmd, nested) ==
    [name |-> cmd.name, type |-> IF cmd.group THEN 2 ELSE 1,
     description |-> cmd.description, required |-> "absent",
     options |-> nested]

\* the dict expected for a child: its own options, then one entry per
\* grandchild carrying that grandchild's options
ChildEntry(child) ==
    CommandEntry(child,
        PlainEntries(child.options) \o
        [i \in DOMAIN child.subcommands |->
            CommandEntry(child.subcommands[i],
                         PlainEntries(child.subcommands[i].options))])

\* C27: to_dict() of a described Slash command holds, besides the dicts of its
\* own options, exactly one entry per child: of type 2 for a group and 1
\* otherwise, with the child's name and description, nesting the child's own
\* options followed by one entry per grandchild with the grandchild's
\* options; to_dict() of a Message or User command holds only name, type and
\* default_permission
C27_NestedSerialization ==
    sent.called =>
        /\ meta.type # "slash"
              => /\ ~sent.raised
                 /\ sent.keys = {"name", "type", "default_permission"}
                 /\ sent.options = <<>>
        /\ (meta.type = "slash" /\ meta.described)
              => /\ ~sent.raised
                 /\ Len(sent.options) = Len(own) + Len(children)
                 /\ \A i \in DOMAIN own :
                      Cardinality({p \in DOMAIN sent.options :
                                      sent.options[p] = PlainEntry(own[i])}) = 1
                 /\ \A i \in DOMAIN children :
                      Cardinality({p \in DOMAIN sent.options :
                                      sent.options[p] = ChildEntry(children[i])}) = 1

\* a slash command with own options, a plain child and a group child that
\* has an option and a subcommand of its own has been serialized
C27_Witness ==
    /\ sent.called
    /\ meta.type = "slash" /\ meta.described
    /\ Len(own) = 2
    /\ Len(children) = 2
    /\ \E i, j \in DOMAIN children :
         /\ ~children[i].group
         /\ children[j].group
         /\ children[j].options # <<>>
         /\ children[j].subcommands # <<>>
         /\ \E p \in DOMAIN sent.options :
              /\ sent.options[p].type = 2
              /\ Len(sent.options[p].options) = 2
              /\ sent.options[p].options[2].type = 1
              /\ sent.options[p].options[2].options # <<>>

\* a user or message command with options and children has been serialized
C27_WitnessOtherKinds ==
    /\ sent.called
    /\ meta.type # "slash"
    /\ own # <<>> /\ children # <<>>

\* the definition at a path of keys below the command
RECURSIVE DefinitionAt(_, _)
DefinitionAt(subcommands, path) ==
    LET i == CHOOSE i \in DOMAIN subcommands : subcommands[i].key = Head(path)
    IN IF Len(path) = 1 THEN subcommands[i]
       ELSE DefinitionAt(subcommands[i].subcommands, Tail(path))

\* the names of the definitions of a subcommand tree
RECURSIVE TreeNames(_)
TreeNames(subcommands) ==
    IF subcommands = <<>> THEN {}
    ELSE {Head(subcommands).name}
         \cup TreeNames(Head(subcommands).subcommands)
         \cup TreeNames(Tail(subcommands))

\* the payload names subcommand n: directly, or inside a group entry
NamesSubcommand(n) ==
    /\ payload.hasOptions
    /\ payload.options # <<>>
    /\ \/ payload.options[1] = Leaf(1, n)
       \/ /\ payload.options[1].type = 2
          /\ payload.options[1].options # <<>>
          /\ payload.options[1].options[1] = Leaf(1, n)

ReturnsSelfCase ==
    \/ ~payload.hasOptions
    \/ command.subcommands = <<>>
    \/ /\ payload.options # <<>>
       /\ payload.options[1].type \notin {1, 2}

\* C28: for a payload that matches the command's name, type and guild scope,
\* _get_used_command returns the command itself when the payload has no
\* options, the command has no subcommands or the first option entry is
\* neither a subcommand nor a group; when the payload names a subcommand that
\* the tree holds, it returns a definition of the tree with that name, and it
\* never returns a definition with another name; the payload's options list
\* is left as it was
C28_UsedCommand ==
    (~Rejected(command, payload, guild_id) /\ used # Pending) =>
        /\ ReturnsSelfCase => used = Self
        /\ \A n \in CommandNames :
             (/\ ~ReturnsSelfCase
              /\ NamesSubcommand(n)
              /\ n \in TreeNames(command.subcommands))
                 => /\ used.kind = "def"
                    /\ DefinitionAt(command.subcommands, used.path).name = n
        /\ used.kind = "def"
              => NamesSubcommand(DefinitionAt(command.subcommands, used.path).name)
        /\ data_options = Dicts(payload.options)

\* the same for payloads whose first entry is a subcommand and for trees in
\* which every definition is stored under its name
DirectlyNamed ==
    /\ payload.options # <<>> => payload.options[1].type # 2
    /\ \A i \in DOMAIN command.subcommands :
         \A j \in DOMAIN command.subcommands[i].subcommands :
            command.subcommands[i].subcommands[j].key
               = command.subcommands[i].subcommands[j].name

C28_DirectlyNamed == DirectlyNamed => C28_UsedCommand

\* the handler produces a choice whose value is not a str, int or float
ProducesInvalidChoice ==
    \E i \in DOMAIN autocomplete.results :
        autocomplete.results[i].value.k \notin {"str", "int", "float"}

\* C29: when the autocomplete handler raises or produces a choice whose value
\* is not a str, int or float, _define_autocomplete_result raises and no
\* response is sent; without a handler nothing is sent and nothing is raised;
\* no check, deferral or error handler of the command pipeline runs
C29_AutocompleteFailure ==
    completion.done =>
        /\ (/\ autocomplete.kind # "None"
            /\ (autocomplete.raises \/ ProducesInvalidChoice))
              => (completion.raised /\ responses = <<>>)
        /\ autocomplete.kind = "None"
              => (~completion.raised /\ responses = <<>>)
        /\ log = <<>>
        /\ ~responded
        /\ err = "none"

\* a handler that raises nothing produced 'Apple' and then None
C29_Witness ==
    /\ completion.done
    /\ completion.raised
    /\ autocomplete.kind = "asyncgen"
    /\ ~autocomplete.raises
    /\ autocomplete.results = <<Bare(Str("Apple")), Bare(NoneV)>>
    /\ responses = <<>>

\* C30: the application commands a cog lists, the commands its _inject
\* registers with the client and the commands whose _cog it becomes are
\* commands that were added to that very cog, never the commands added to
\* another cog only
C30_RegistriesIndependent ==
    \A b \in Cogs, c \in CogCommands :
        /\ c \in get_application_commands(cog_application_commands, b)
              => <<b, c>> \in added
        /\ (client_commands[c].registered /\ client_commands[c].by = b)
              => <<b, c>> \in added
        /\ command_cog[c] = b => <<b, c>> \in added

\* the same for the commands that every cog added
C30_AddedToEveryCog ==
    \A b \in Cogs, c \in CogCommands :
        (\A other \in Cogs : <<other, c>> \in added)
            => /\ (client_commands[c].registered /\ client_commands[c].by = b)
                     => <<b, c>> \in added
               /\ command_cog[c] = b => <<b, c>> \in added

\* the commands cog b registered with the client and still holds
RegisteredBy(b) ==
    {c \in get_application_commands(cog_application_commands, b) :
        client_commands[c].registered /\ client_commands[c].by = b}

Ejecting(b) == b \in injected /\ b \notin ejected /\ b \in ejected'

\* _eject removes from the client every command the cog registered
EjectRemovesCommands ==
    \A b \in Cogs :
        Ejecting(b) => \A c \in RegisteredBy(b) : ~client_commands'[c].registered

\* _eject removes the client-level check the cog added at _inject
EjectRemovesCheck ==
    \A b \in Cogs :
        Ejecting(b) => \A i \in DOMAIN client_checks' : client_checks'[i] # b

\* C31: _eject of an injected cog restores the client: every application
\* command the cog registered is removed from the client, and the
\* client-level application command check it added at _inject is no longer
\* among the client's checks
C31_EjectRestores == [][EjectRemovesCommands /\ EjectRemovesCheck]_vars

\* the commands are removed
C31_CommandsRemoved == [][EjectRemovesCommands]_vars

HeldUnder(c) ==
    {i \in DOMAIN cog_application_commands : cog_application_commands[i].value = c}

\* C32: remove_application_command(c) on a cog that holds c returns c and
\* leaves the registry without c, whatever set_name, set_type and set_parent
\* calls were made on c since it was added; and the registry never holds a
\* command under two keys
C32_AlwaysUnregistered ==
    /\ (popped.command # "None" /\ popped.held)
          => /\ popped.result = popped.command
             /\ HeldUnder(popped.command) = {}
    /\ \A c \in CogCommands : Cardinality(HeldUnder(c)) <= 1

\* C33: to_dict() of an option holds 'min_value' whenever min_value is not
\* None and 'max_value' whenever max_value is not None, with the configured
\* number, 0 included; 'required' exactly when required is not missing; and
\* 'autocomplete': true exactly when an autocomplete handler is registered
C33_BoundsSerialized ==
    option_dict.called =>
        /\ option_dict.payload.min_value
              = (IF the_option.min_value # NoneV THEN the_option.min_value ELSE Absent)
        /\ option_dict.payload.max_value
              = (IF the_option.max_value # NoneV THEN the_option.max_value ELSE Absent)
        /\ (option_dict.payload.required # "absent") <=> (the_option.required # MISSING)
        /\ the_option.required # MISSING => option_dict.payload.required = the_option.required
        /\ (option_dict.payload.autocomplete = "True") <=> the_option.autocomplete

\* the same for options whose bounds are not 0
C33_NonZeroBounds ==
    (the_option.min_value # Int0 /\ the_option.max_value # Int0) => C33_BoundsSerialized

\* the payload key an argument of edit() is sent under
KeyOf(arg) ==
    CASE arg = "channel" -> "channel_id"
      [] arg = "location" -> "entity_metadata"
      [] OTHER -> arg

\* C34: the payload of ScheduledEvent.edit holds exactly the fields that were
\* supplied, each under its own key: a supplied status under 'status', a
\* supplied entity_type under 'entity_type' with the entity type as its
\* value, and no key for a field that was not supplied
C34_EditPayload ==
    edit_payload.sent =>
        /\ \A arg \in DOMAIN edit_args :
             (edit_args[arg] # MISSING)
                 <=> (edit_payload.payload[KeyOf(arg)] # "absent")
        /\ edit_args.status # MISSING
              => edit_payload.payload["status"] = "2"
        /\ edit_args.entity_type # MISSING
              => edit_payload.payload["entity_type"] = "3"

\* the same for edits that do not supply a status
C34_WithoutStatus == (edit_args.status = MISSING) => C34_EditPayload

\* is_finished()
Finished == modal.stopped # "pending"

\* C35: once the modal's future is resolved it stays resolved with the same
\* result; wait() yields False when stop() resolved it and True when the
\* timeout did; on_timeout is scheduled at most once, and never once stop()
\* has been called
C35_FinishedOnce ==
    /\ [](/\ modal.resolved_by = "stop" <=> modal.stopped = "False"
          /\ modal.resolved_by = "timeout" <=> modal.stopped = "True"
          /\ modal.on_timeout_tasks <= 1
          /\ ~modal.late_timeout)
    /\ [][Finished => modal'.stopped = modal.stopped]_vars
    /\ [][modal.stop_called => modal'.on_timeout_tasks = modal.on_timeout_tasks]_vars

\* the modal timed out, and then stop() was called on it
C35_Witness ==
    /\ modal.stopped = "True"
    /\ modal.stop_called
    /\ modal.on_timeout_tasks = 1
    /\ modal_store.adds = 2

\* C36: whatever the order of submission, timeout and stop(), the callback of
\* a modal runs at most once per add_modal, a finished modal gets no callback
\* task, and stop() does not raise
C36_SubmitOnce ==
    /\ [](/\ modal.callback_tasks <= modal_store.adds
          /\ modal.raised = "None")
    /\ [][Finished => modal'.callback_tasks = modal.callback_tasks]_vars

\* the same without the requirement on stop()
C36_CallbackOnce ==
    /\ [](modal.callback_tasks <= modal_store.adds)
    /\ [][Finished => modal'.callback_tasks = modal.callback_tasks]_vars

\* ceil(L / page size)
PagesFor(L) == (L + PageSize - 1) \div PageSize

\* C37: an iterator created with limit L yields at most L members; its
\* remaining limit never increases, and is 0 once ceil(L / page size) fetches
\* have been made
C37_AtMostLimit ==
    /\ [](/\ member_iterator.yielded <= member_iterator.given
          /\ member_iterator.fetches >= PagesFor(member_iterator.given)
                => member_iterator.limit = 0)
    /\ [][member_iterator'.limit <= member_iterator.limit]_vars

\* limits below the page size are kept, and no limit ever increases
C37_BelowPageSize ==
    /\ [](member_iterator.given < PageSize
            => member_iterator.yielded <= member_iterator.given)
    /\ [][member_iterator'.limit <= member_iterator.limit]_vars


\* groups A and B of the command both hold a subcommand named n
HeldByTwoGroups(a, b, n) ==
    /\ a # b
    /\ \A g \in {a, b} :
         \E i \in DOMAIN command.subcommands :
            /\ command.subcommands[i].name = g
            /\ command.subcommands[i].group
            /\ \E j \in DOMAIN command.subcommands[i].subcommands :
                 command.subcommands[i].subcommands[j].name = n

\* C38: when a command has two groups A and B that each hold a subcommand
\* named S, a payload naming group B and S resolves to B's S and a payload
\* naming group A and S resolves to A's S.
C38_GroupTakenIntoAccount ==
    \A a, b, n \in CommandNames :
        (/\ ~Rejected(command, payload, guild_id)
         /\ HeldByTwoGroups(a, b, n)
         /\ payload.hasOptions
         /\ payload.options = <<Entry(2, b, TRUE, <<Leaf(1, n)>>)>>
         /\ used # Pending)
            => used = Def("def", <<b, n>>)

\* the lookup _get_used_command makes is by the subcommand's name alone: for
\* a name held by two groups it yields the one of the group that comes first
\* in the command's map, whichever definition the payload names
C38_LookupByNameAlone ==
    \A a, b, n \in CommandNames :
        (/\ HeldByTwoGroups(a, b, n)
         /\ used.kind = "def"
         /\ DefinitionAt(command.subcommands, used.path).name = n)
            => used.path = <<command.subcommands[1].key, n>>


\* c is in p's subcommand map under c's name
InMapOf(p, c) == link_subcommands[p][link_names[c]] = c

\* C39: in every state reached by class definitions with parent=,
\* add_subcommand and set_parent, a command c is in p's subcommand map under
\* c's name if and only if c's parent is p.
C39_LinksConsistent ==
    \A c, p \in LinkDefined : InMapOf(p, c) <=> link_parent[c] = p

\* what each call does write: after p.add_subcommand(c) c is in p's map,
\* after c.set_parent(q) c is in q's map and its parent is q, and a class
\* defined with parent=p is in p's map with parent p
C39_WrittenLinks ==
    [][/\ \A p, c \in LinkDefined :
            (p # c /\ slash_add_subcommand(p, c)) =>
                link_subcommands'[p][link_names'[c]] = c
       /\ \A c, q \in LinkDefined :
            (c # q /\ set_parent(c, q)) =>
                /\ link_subcommands'[q][link_names'[c]] = c
                /\ link_parent'[c] = q
       /\ \A c \in LinkCommands \ LinkDefined, n \in LinkNames, p \in LinkDefined :
            init_subclass_parent(c, n, p) =>
                /\ link_subcommands'[p][link_names'[c]] = c
                /\ link_parent'[c] = p]_vars

\* after p.add_subcommand(c), c's parent is p
C39_AddSetsParent ==
    [][\A p, c \in LinkDefined :
          (p # c /\ slash_add_subcommand(p, c)) => link_parent'[c] = p]_vars

\* after c.set_parent(q), c is no longer in the map of its previous parent
C39_SetParentMoves ==
    [][\A c, q \in LinkDefined :
          (c # q /\ set_parent(c, q) /\ link_parent[c] \notin {"None", q})
              => link_subcommands'[link_parent[c]][link_names'[c]] # c]_vars


\* in a serialized 'options' list no required option comes after an option
\* that is not required
RequiredComeFirst(entries) ==
    \A i, j \in DOMAIN entries :
        (/\ i < j
         /\ entries[i].type \notin {1, 2}
         /\ entries[i].required # "True")
            => entries[j].required # "True"

\* C40: in the nested 'options' list of each child entry and each grandchild
\* entry of to_dict() no required option appears after an optional one,
\* whatever the declaration order of the child's options.
C40_NestedRequiredFirst ==
    (sent.called /\ ~sent.raised) =>
        \A i \in DOMAIN sent.options :
            sent.options[i].type \in {1, 2} =>
                /\ RequiredComeFirst(sent.options[i].options)
                /\ \A j \in DOMAIN sent.options[i].options :
                      sent.options[i].options[j].type \in {1, 2} =>
                          RequiredComeFirst(sent.options[i].options[j].options)

\* no child or grandchild declares an optional option before a required one
DeclaredRequiredFirst ==
    \A i \in DOMAIN children :
        /\ RequiredComeFirst(children[i].options)
        /\ \A j \in DOMAIN children[i].subcommands :
              RequiredComeFirst(children[i].subcommands[j].options)

\* the nested lists keep the declaration order: they are ordered when the
\* class bodies are, and the top-level list is ordered in every case
C40_DeclaredInOrder ==
    (sent.called /\ ~sent.raised) =>
        /\ RequiredComeFirst(sent.options)
        /\ DeclaredRequiredFirst => C40_NestedRequiredFirst

====
